---- MODULE Spec2Model ----
(***************************************************************************)
(* The PDF ingestion pipeline of preprocessing.py: the batch driver        *)
(* (process_multiple_pdfs), the per-document pipeline (process_pdf), the   *)
(* relational repository (PostgreSQLRepository) and the graph repository   *)
(* (Neo4jRepository), as one sequential state machine.                     *)
(*                                                                         *)
(* Texts are sequences of tokens (words and whitespace runs).  External    *)
(* libraries (PyMuPDF, langdetect, the text splitters, the embedding       *)
(* model, the two database servers, the file system) are the environment:  *)
(* their results on the model's files are tabulated, and each call that    *)
(* can raise does so nondeterministically.                                 *)
(***************************************************************************)
EXTENDS Integers, Sequences, FiniteSets, TLC

\* ------------------------------------------------------------------ bounds
\* Total number of paths handed to the batch driver, over all batches.
MaxRuns == 2
\* Size limit of one segment, in words (the model's scale of CHUNK_SIZE).
SegWords == 2

\* -------------------------------------------------------- program constants
MAX_PAGES == 100

\* ------------------------------------------------------------ environment
\* The files on disk.  Two paths share the stem "x" (so they share the
\* document name), one path is missing.
PathAX == [dir |-> "a", stem |-> "x"]
PathBX == [dir |-> "b", stem |-> "x"]
PathAY == [dir |-> "a", stem |-> "y"]
PathAM == [dir |-> "a", stem |-> "m"]
Paths == {PathAX, PathBX, PathAY, PathAM}

\* pdf_path.exists()
Exists(p) == p # PathAM

\* The page texts PyMuPDF returns for a file, in page order.
FilePages(p) ==
    CASE p = PathAX -> << <<"see", "\n", "Evil.test", "  ">>, <<"10.0.0.5">> >>
      [] p = PathBX -> << <<"voir", " ", "evil.test">> >>
      [] p = PathAY -> << <<"  ", "10.0.0.5">> >>
      [] OTHER -> << >>

\* str(pdf_path) and pdf_path.stem
PathStr(p) == p.dir \o "/" \o p.stem \o ".pdf"
Stem(p) == p.stem

\* ------------------------------------------------------------------ texts
IsSpace(tok) == tok \in {" ", "  ", "\n"}

RECURSIVE CollapseSpaces(_)
\* re.sub(r"\s+", " ", text): every whitespace run becomes one space.
CollapseSpaces(s) ==
    IF s = << >> THEN << >>
    ELSE IF IsSpace(Head(s))
         THEN IF Len(s) > 1 /\ IsSpace(s[2])
              THEN CollapseSpaces(Tail(s))
              ELSE <<" ">> \o CollapseSpaces(Tail(s))
         ELSE <<Head(s)>> \o CollapseSpaces(Tail(s))

\* text.strip()
Strip(s) ==
    LET a == IF s # << >> /\ IsSpace(Head(s)) THEN Tail(s) ELSE s
    IN  IF a # << >> /\ IsSpace(a[Len(a)]) THEN SubSeq(a, 1, Len(a) - 1) ELSE a

\* TextProcessor.clean_text (the vocabulary has no typographic quotes or
\* dashes, so the replace() calls change nothing).
clean_text(text) == Strip(CollapseSpaces(text))

RECURSIVE JoinTexts(_)
\* " ".join(texts)
JoinTexts(ts) ==
    IF ts = << >> THEN << >>
    ELSE IF Len(ts) = 1 THEN Head(ts)
    ELSE Head(ts) \o <<" ">> \o JoinTexts(Tail(ts))

Words(text) == SelectSeq(text, LAMBDA t : ~IsSpace(t))

\* ------------------------------------------------------ indicator extractor
\* The categories, in the insertion order of the indicators dict.
Categories == <<"domains", "urls", "ips", "emails", "phones", "social_handles", "tracking_ids">>

\* What the regular expressions of extract_indicators_by_category find in
\* one word of the vocabulary: a set of <<category, value>> (domains are
\* lower-cased, IPs validated).
TokenFinds(tok) ==
    CASE tok \in {"evil.test", "Evil.test"} -> {<<"domains", "evil.test">>}
      [] tok = "10.0.0.5" -> {<<"ips", "10.0.0.5">>}
      [] OTHER -> {}

\* The values of the vocabulary in lexicographic (code point) order.
SortedValues == <<"10.0.0.5", "evil.test">>

\* sorted(v)
Sorted(S) == SelectSeq(SortedValues, LAMBDA v : v \in S)

\* IndicatorExtractor.extract_indicators_by_category: category -> sorted list.
extract_indicators_by_category(text) ==
    LET finds == UNION {TokenFinds(text[i]) : i \in 1..Len(text)}
    IN  [c \in {Categories[k] : k \in 1..Len(Categories)} |->
            Sorted({f[2] : f \in {g \in finds : g[1] = c}})]

RECURSIVE FlatFrom(_, _)
FlatFrom(ind, k) ==
    IF k > Len(Categories) THEN << >>
    ELSE ind[Categories[k]] \o FlatFrom(ind, k + 1)

\* flat_indicators = [v for values in chunk_indicators.values() for v in values]
FlatIndicators(ind) == FlatFrom(ind, 1)

\* -------------------------------------------------------- language detector
\* langdetect.detect on the model's texts: the language code it reports.
Detect(text) == IF "voir" \in {text[k] : k \in 1..Len(text)} THEN "fr" ELSE "en"

\* TextProcessor.detect_language: en/fr/de are kept, any other code gives
\* "en", and so does the detector's error on a text without words.  It never
\* raises.
detect_language(text) ==
    IF Words(text) = << >> THEN "en"
    ELSE LET code == Detect(text)
         IN  IF code \in {"en", "fr", "de"} THEN code ELSE "en"

\* ------------------------------------------------------------------ chunking
RECURSIVE GroupWords(_, _)
\* A length-based splitter: consecutive segments of at most n words.
GroupWords(ws, n) ==
    IF ws = << >> THEN << >>
    ELSE IF Len(ws) <= n THEN <<ws>>
    ELSE <<SubSeq(ws, 1, n)>> \o GroupWords(SubSeq(ws, n + 1, Len(ws)), n)

\* SpacyTextSplitter(...).split_text(text)
SpacySplit(text) == GroupWords(Words(text), SegWords)

\* RecursiveCharacterTextSplitter(...).split_text(text)
RecursiveSplit(text) == GroupWords(Words(text), SegWords)

RECURSIVE PostProcess(_)
\* The loop over the primary segments: an oversized one is re-split by the
\* recursive splitter and its parts are inserted in place.
PostProcess(cs) ==
    IF cs = << >> THEN << >>
    ELSE (IF Len(Head(cs)) > SegWords THEN RecursiveSplit(Head(cs)) ELSE <<Head(cs)>>)
         \o PostProcess(Tail(cs))

\* TextProcessor.chunk_text: the primary splitter, or on any error of the
\* primary path the recursive splitter over the whole text.
chunk_text(text, spacy_ok) ==
    IF spacy_ok THEN PostProcess(SpacySplit(text)) ELSE RecursiveSplit(text)

\* ---------------------------------------------------------------- identities
\* uuid.uuid5(uuid.NAMESPACE_DNS, f"{category}:{value}"): a hash of the key
\* string, modelled as injective on key strings.
IndicatorUuid(category, value) == <<"uuid5", category \o ":" \o value>>

\* The pages PDFExtractor.extract_text_from_pdf returns: numbered from 1,
\* at most MAX_PAGES of them.
extract_text_from_pdf(p) ==
    LET ps == FilePages(p)
        n == IF Len(ps) > MAX_PAGES THEN MAX_PAGES ELSE Len(ps)
    IN  [k \in 1..n |-> [page |-> k, text |-> ps[k]]]

RECURSIVE ValueTriples(_, _, _)
ValueTriples(page, cat, vals) ==
    IF vals = << >> THEN << >>
    ELSE << <<page, cat, Head(vals)>> >> \o ValueTriples(page, cat, Tail(vals))

RECURSIVE CategoryTriples(_, _, _)
CategoryTriples(page, ind, k) ==
    IF k > Len(Categories) THEN << >>
    ELSE ValueTriples(page, Categories[k], ind[Categories[k]])
         \o CategoryTriples(page, ind, k + 1)

RECURSIVE PageTriples(_)
\* The (page, category, value) triples in the iteration order of
\* insert_indicators over indicators_by_page.
PageTriples(pages) ==
    IF pages = << >> THEN << >>
    ELSE CategoryTriples(Head(pages).page,
                         extract_indicators_by_category(clean_text(Head(pages).text)), 1)
         \o PageTriples(Tail(pages))

\* --------------------------------------------------------------------- state
VARIABLES
    pdfs,             \* config.PDFS of the batch in progress
    neo4j_driver,     \* whether the caller passed a graph driver
    pc,               \* position of the driver / of process_pdf
    idx,              \* index of the for loop over config.PDFS
    processed_count,  \* the driver's counter
    reported,         \* the last summary line: processed count and total
    pdf_path, doc_name, raw_pages, full_text, lang, doc_uuid,
    chunks, i, neo4j_success,   \* locals of process_pdf
    todo,             \* triples insert_indicators has still to write
    documents,        \* table pdf.documents
    chunk_rows,       \* table pdf.chunks
    doc_nodes,        \* Document nodes of the graph, by internal node id
    ind_nodes,        \* Indicator nodes of the graph, by internal node id
    edges,            \* MENTIONED_IN relationships
    artifacts,        \* by document name: the files of the last completed
                      \* save_clean_and_json (clean text and indicators JSON),
                      \* as a set of at most one record
    visited,          \* history: paths the loop has visited in this batch
    called,           \* history: paths passed to process_pdf in this batch
    log,              \* history: one record per process_pdf call, all batches
    runs,             \* history: paths handed to the driver so far, all batches
    ct_pc,            \* position inside one call of chunk_text
    ct_text,          \* chunk_text: the text argument
    use_spacy,        \* chunk_text: the use_spacy argument, cleared on an error
    spacy_chunks,     \* chunk_text: the segments the primary splitter returned
    final_chunks,     \* chunk_text: the list the post-processing loop builds
    ct_k,             \* chunk_text: index of the post-processing loop
    ct_return,        \* chunk_text: the list returned
    ex_pc,            \* position inside one call of extract_indicators_by_category
    ex_text,          \* extractor: the text argument, as characters
    ex_indicators,    \* extractor: the dict of sets it fills
    ex_return,        \* extractor: the dict of sorted lists returned
    ip_strict         \* whether ipaddress rejects octets written with leading zeros

driverVars == <<pdfs, neo4j_driver, idx, processed_count, reported>>
localVars == <<pdf_path, doc_name, raw_pages, full_text, lang, doc_uuid, chunks, i,
               neo4j_success, todo>>
pgVars == <<documents, chunk_rows>>
neoVars == <<doc_nodes, ind_nodes, edges>>
fileVars == <<artifacts>>
histVars == <<visited, called, log, runs>>
pipelineVars == <<pc, driverVars, localVars, pgVars, neoVars, fileVars, histVars>>
chunkVars == <<ct_pc, ct_text, use_spacy, spacy_chunks, final_chunks, ct_k, ct_return>>
extractVars == <<ex_pc, ex_text, ex_indicators, ex_return, ip_strict>>
vars == <<pipelineVars, chunkVars, extractVars>>

Names == {Stem(p) : p \in Paths}
\* No artifact of that name yet; no summary line yet.
NoFile == {}
NoReport == [count |-> -1, total |-> -1]
NoPath == [dir |-> "", stem |-> ""]

\* Lists of at most n paths.
ListsUpTo(n) == UNION {[1..k -> Paths] : k \in 0..n}

\* uuid.uuid4(): an identifier that no stored row or edge carries.
UsedUuids ==
    {r.uuid : r \in documents} \cup {r.uuid : r \in chunk_rows}
        \cup {e.relationship_uuid : e \in edges}
uuid4 == CHOOSE n \in 1..(Cardinality(UsedUuids) + 1) :
            n \notin UsedUuids /\ \A m \in 1..(n - 1) : m \in UsedUuids

ResetLocals ==
    /\ pdf_path' = NoPath
    /\ doc_name' = ""
    /\ raw_pages' = << >>
    /\ full_text' = << >>
    /\ lang' = ""
    /\ doc_uuid' = 0
    /\ chunks' = << >>
    /\ i' = 0
    /\ neo4j_success' = TRUE
    /\ todo' = << >>

\* No call of chunk_text on its own is in progress.
ChunkIdle ==
    /\ ct_pc = "idle"
    /\ ct_text = << >>
    /\ use_spacy = TRUE
    /\ spacy_chunks = << >>
    /\ final_chunks = << >>
    /\ ct_k = 0
    /\ ct_return = << >>

\* No call of extract_indicators_by_category on its own is in progress.
ExtractIdle ==
    /\ ex_pc = "idle"
    /\ ex_text = << >>
    /\ ex_indicators = << >>
    /\ ex_return = << >>
    /\ ip_strict = TRUE

\* The pipeline before the first batch: empty stores, no artifacts.  The
\* caller passes the same graph driver, or none, to every batch.
PipelineIdle ==
    /\ pdfs = << >>
    /\ neo4j_driver \in BOOLEAN
    /\ pc = "idle"
    /\ idx = 0
    /\ processed_count = 0
    /\ reported = NoReport
    /\ pdf_path = NoPath
    /\ doc_name = ""
    /\ raw_pages = << >>
    /\ full_text = << >>
    /\ lang = ""
    /\ doc_uuid = 0
    /\ chunks = << >>
    /\ i = 0
    /\ neo4j_success = TRUE
    /\ todo = << >>
    /\ documents = {}
    /\ chunk_rows = {}
    /\ doc_nodes = << >>
    /\ ind_nodes = << >>
    /\ edges = {}
    /\ artifacts = [n \in Names |-> NoFile]
    /\ visited = << >>
    /\ called = << >>
    /\ log = << >>
    /\ runs = 0

\* The state after construction, before the first batch.
Init ==
    /\ PipelineIdle
    /\ ChunkIdle
    /\ ExtractIdle

\* The last record of the log, updated.
LogSet(field, value) == [log EXCEPT ![Len(log)] = [@ EXCEPT ![field] = value]]

\* ------------------------------------------------------------ batch driver
\* process_multiple_pdfs with an empty config.PDFS: a warning, nothing else
\* (the call has no counter and no loop).
ProcessMultipleEmpty ==
    /\ pc = "idle"
    /\ pdfs' = << >>
    /\ processed_count' = 0
    /\ idx' = 0
    /\ visited' = << >>
    /\ called' = << >>
    /\ reported' = NoReport
    /\ UNCHANGED <<pc, neo4j_driver, localVars, pgVars, neoVars, fileVars, log, runs>>
    /\ UNCHANGED <<chunkVars, extractVars>>

\* process_multiple_pdfs: the counter is zeroed and the loop starts.
ProcessMultipleStart(list) ==
    /\ pc = "idle"
    /\ list # << >>
    /\ runs + Len(list) <= MaxRuns
    /\ pdfs' = list
    /\ processed_count' = 0
    /\ idx' = 1
    /\ pc' = "loop"
    /\ visited' = << >>
    /\ called' = << >>
    /\ reported' = NoReport
    /\ runs' = runs + Len(list)
    /\ UNCHANGED <<neo4j_driver, localVars, pgVars, neoVars, fileVars, log>>
    /\ UNCHANGED <<chunkVars, extractVars>>

\* The loop reaches a path that does not exist: "File not found", next path.
ForMissing ==
    /\ pc = "loop"
    /\ idx <= Len(pdfs)
    /\ ~Exists(pdfs[idx])
    /\ visited' = Append(visited, pdfs[idx])
    /\ idx' = idx + 1
    /\ UNCHANGED <<pc, pdfs, neo4j_driver, processed_count, reported, localVars,
                   pgVars, neoVars, fileVars, called, log, runs>>
    /\ UNCHANGED <<chunkVars, extractVars>>

\* The loop reaches an existing path and calls process_pdf on it.
ForCall ==
    /\ pc = "loop"
    /\ idx <= Len(pdfs)
    /\ Exists(pdfs[idx])
    /\ visited' = Append(visited, pdfs[idx])
    /\ called' = Append(called, pdfs[idx])
    /\ log' = Append(log, [path |-> pdfs[idx], res |-> "running", n |-> 0,
                           graph |-> "none"])
    /\ pdf_path' = pdfs[idx]
    /\ doc_name' = Stem(pdfs[idx])
    /\ pc' = "extract"
    /\ UNCHANGED <<driverVars, raw_pages, full_text, lang, doc_uuid, chunks, i,
                   neo4j_success, todo, pgVars, neoVars, fileVars, runs>>
    /\ UNCHANGED <<chunkVars, extractVars>>

\* process_pdf returned: the document is counted, next path.
DriverReturn ==
    /\ pc = "returned"
    /\ processed_count' = processed_count + 1
    /\ idx' = idx + 1
    /\ pc' = "loop"
    /\ ResetLocals
    /\ UNCHANGED <<pdfs, neo4j_driver, reported, pgVars, neoVars, fileVars, histVars>>
    /\ UNCHANGED <<chunkVars, extractVars>>

\* Mutant of DriverCatch: the except branch leaves the loop.
DriverCatch_Abort ==
    /\ pc = "raised"
    /\ idx' = Len(pdfs) + 1
    /\ pc' = "loop"
    /\ ResetLocals
    /\ UNCHANGED <<pdfs, neo4j_driver, processed_count, reported, pgVars, neoVars,
                   fileVars, histVars>>
    /\ UNCHANGED <<chunkVars, extractVars>>

\* process_pdf raised: the driver's except branch logs it and continues.
DriverCatch ==
    /\ pc = "raised"
    /\ idx' = idx + 1
    /\ pc' = "loop"
    /\ ResetLocals
    /\ UNCHANGED <<pdfs, neo4j_driver, processed_count, reported, pgVars, neoVars,
                   fileVars, histVars>>
    /\ UNCHANGED <<chunkVars, extractVars>>

\* Mutant of ForEnd: the total printed is the number of calls made.
ForEnd_TotalCalled ==
    /\ pc = "loop"
    /\ idx > Len(pdfs)
    /\ reported' = [count |-> processed_count, total |-> Len(called)]
    /\ pc' = "idle"
    /\ UNCHANGED <<pdfs, neo4j_driver, idx, processed_count, localVars, pgVars,
                   neoVars, fileVars, histVars>>
    /\ UNCHANGED <<chunkVars, extractVars>>

\* The loop is over: the summary line is printed.
ForEnd ==
    /\ pc = "loop"
    /\ idx > Len(pdfs)
    /\ reported' = [count |-> processed_count, total |-> Len(pdfs)]
    /\ pc' = "idle"
    /\ UNCHANGED <<pdfs, neo4j_driver, idx, processed_count, localVars, pgVars,
                   neoVars, fileVars, histVars>>
    /\ UNCHANGED <<chunkVars, extractVars>>

\* ------------------------------------------------------ relational store
\* Mutant of DocumentUuidFor: the generated uuid is returned even when a
\* row of that name was found.
DocumentUuidFor_Generated(name, fresh) == fresh

\* PostgreSQLRepository.insert_document: the uuid it returns.  The row that
\* fetchone() gives for the name wins; otherwise the freshly generated uuid.
DocumentUuidFor(name, fresh) ==
    IF \E r \in documents : r.name = name
    THEN (CHOOSE r \in documents : r.name = name).uuid
    ELSE fresh

\* Mutant of DocumentsAfterInsert: a found row is updated with the new path
\* and language.
DocumentsAfterInsert_Update(name, path, language, fresh) ==
    IF \E r \in documents : r.name = name
    THEN {IF r.name = name THEN [r EXCEPT !.path = path, !.language = language] ELSE r :
             r \in documents}
    ELSE documents \cup {[uuid |-> fresh, name |-> name, path |-> path,
                          language |-> language]}

\* Mutant of DocumentsAfterInsert: the row is inserted without the lookup.
DocumentsAfterInsert_NoLookup(name, path, language, fresh) ==
    documents \cup {[uuid |-> fresh, name |-> name, path |-> path,
                     language |-> language]}

\* PostgreSQLRepository.insert_document: the table after the call.  A row is
\* inserted only when the SELECT by name found none.
DocumentsAfterInsert(name, path, language, fresh) ==
    IF \E r \in documents : r.name = name
    THEN documents
    ELSE documents \cup {[uuid |-> fresh, name |-> name, path |-> path,
                          language |-> language]}

\* EmbeddingService.generate_embedding: a vector determined by the text.
generate_embedding(text) == <<"vector", text>>

\* Mutant of ChunkRow: the chunk uuid is derived from document and page.
ChunkRow_Keyed(document_uuid, text, indicators, page, language) ==
    [uuid |-> 1000 + 10 * document_uuid + page, document_uuid |-> document_uuid,
     text |-> text, embedding |-> <<"vector", text>>, indicators |-> indicators,
     page |-> page, language |-> language]

\* Mutant of ChunkRow: the row takes the language of its document row.
ChunkRow_DocumentLanguage(document_uuid, text, indicators, page, language) ==
    [uuid |-> uuid4, document_uuid |-> document_uuid, text |-> text,
     embedding |-> generate_embedding(text), indicators |-> indicators,
     page |-> page,
     language |-> (CHOOSE r \in documents : r.uuid = document_uuid).language]

\* PostgreSQLRepository.insert_chunk: the row it inserts, under a fresh uuid.
ChunkRow(document_uuid, text, indicators, page, language) ==
    [uuid |-> uuid4, document_uuid |-> document_uuid, text |-> text,
     embedding |-> generate_embedding(text), indicators |-> indicators,
     page |-> page, language |-> language]

\* ----------------------------------------------------------- process_pdf
\* raw_pages = self.pdf_extractor.extract_text_from_pdf(pdf_path)
ExtractText ==
    /\ pc = "extract"
    /\ raw_pages' = extract_text_from_pdf(pdf_path)
    /\ pc' = "clean"
    /\ UNCHANGED <<driverVars, pdf_path, doc_name, full_text, lang, doc_uuid, chunks,
                   i, neo4j_success, todo, pgVars, neoVars, fileVars, histVars>>
    /\ UNCHANGED <<chunkVars, extractVars>>

\* full_text = " ".join(clean_text(p["text"]) for p in raw_pages)
CleanAndJoin ==
    /\ pc = "clean"
    /\ full_text' = JoinTexts([k \in 1..Len(raw_pages) |-> clean_text(raw_pages[k].text)])
    /\ pc' = "detect"
    /\ UNCHANGED <<driverVars, pdf_path, doc_name, raw_pages, lang, doc_uuid, chunks,
                   i, neo4j_success, todo, pgVars, neoVars, fileVars, histVars>>
    /\ UNCHANGED <<chunkVars, extractVars>>

\* lang = self.text_processor.detect_language(full_text)
DetectLanguage ==
    /\ pc = "detect"
    /\ lang' = detect_language(full_text)
    /\ pc' = "upsert"
    /\ UNCHANGED <<driverVars, pdf_path, doc_name, raw_pages, full_text, doc_uuid,
                   chunks, i, neo4j_success, todo, pgVars, neoVars, fileVars,
                   histVars>>
    /\ UNCHANGED <<chunkVars, extractVars>>

\* doc_uuid = postgres_repo.insert_document(doc_name, str(pdf_path), lang)
InsertDocument ==
    /\ pc = "upsert"
    /\ doc_uuid' = DocumentUuidFor(doc_name, uuid4)
    /\ documents' = DocumentsAfterInsert(doc_name, PathStr(pdf_path), lang, uuid4)
    /\ pc' = "chunk"
    /\ UNCHANGED <<driverVars, pdf_path, doc_name, raw_pages, full_text, lang, chunks,
                   i, neo4j_success, todo, chunk_rows, neoVars, fileVars, histVars>>
    /\ UNCHANGED <<chunkVars, extractVars>>

\* chunks = self.text_processor.chunk_text(full_text, language=lang); an
\* error of the primary splitter is swallowed inside chunk_text.
ChunkText(spacy_ok) ==
    /\ pc = "chunk"
    /\ chunks' = chunk_text(full_text, spacy_ok)
    /\ i' = 1
    /\ log' = LogSet("n", Len(chunk_text(full_text, spacy_ok)))
    /\ pc' = "insert_chunk"
    /\ UNCHANGED <<driverVars, pdf_path, doc_name, raw_pages, full_text, lang, doc_uuid,
                   neo4j_success, todo, pgVars, neoVars, fileVars, visited, called, runs>>
    /\ UNCHANGED <<chunkVars, extractVars>>

\* Mutant of InsertChunk: the loop numbers the chunks from 0 (enumerate
\* without start=1).
InsertChunk_ZeroBased ==
    /\ pc = "insert_chunk"
    /\ i <= Len(chunks)
    /\ chunk_rows' = chunk_rows \cup
            {ChunkRow(doc_uuid, chunks[i],
                      FlatIndicators(extract_indicators_by_category(chunks[i])), i - 1,
                      lang)}
    /\ i' = i + 1
    /\ UNCHANGED <<pc, driverVars, pdf_path, doc_name, raw_pages, full_text, lang,
                   doc_uuid, chunks, neo4j_success, todo, documents, neoVars, fileVars,
                   histVars>>
    /\ UNCHANGED <<chunkVars, extractVars>>

\* One iteration of the loop over enumerate(chunks, start=1).
InsertChunk ==
    /\ pc = "insert_chunk"
    /\ i <= Len(chunks)
    /\ chunk_rows' = chunk_rows \cup
            {ChunkRow(doc_uuid, chunks[i],
                      FlatIndicators(extract_indicators_by_category(chunks[i])), i, lang)}
    /\ i' = i + 1
    /\ UNCHANGED <<pc, driverVars, pdf_path, doc_name, raw_pages, full_text, lang,
                   doc_uuid, chunks, neo4j_success, todo, documents, neoVars, fileVars,
                   histVars>>
    /\ UNCHANGED <<chunkVars, extractVars>>

\* Mutant of GraphPhaseStart: the graph phase may start while chunks are
\* still to be inserted.
GraphPhaseStart_Early ==
    /\ pc = "insert_chunk"
    /\ neo4j_success' = TRUE
    /\ pc' = IF neo4j_driver THEN "neo_connect" ELSE "save"
    /\ UNCHANGED <<driverVars, pdf_path, doc_name, raw_pages, full_text, lang, doc_uuid,
                   chunks, i, todo, pgVars, neoVars, fileVars, histVars>>
    /\ UNCHANGED <<chunkVars, extractVars>>

\* Mutant of GraphPhaseStart: without a driver the flag starts false.
GraphPhaseStart_FlagNeedsDriver ==
    /\ pc = "insert_chunk"
    /\ i > Len(chunks)
    /\ neo4j_success' = neo4j_driver
    /\ pc' = IF neo4j_driver THEN "neo_connect" ELSE "save"
    /\ UNCHANGED <<driverVars, pdf_path, doc_name, raw_pages, full_text, lang, doc_uuid,
                   chunks, i, todo, pgVars, neoVars, fileVars, histVars>>
    /\ UNCHANGED <<chunkVars, extractVars>>

\* After the last chunk: neo4j_success = True, then "if neo4j_driver:".
GraphPhaseStart ==
    /\ pc = "insert_chunk"
    /\ i > Len(chunks)
    /\ neo4j_success' = TRUE
    /\ pc' = IF neo4j_driver THEN "neo_connect" ELSE "save"
    /\ UNCHANGED <<driverVars, pdf_path, doc_name, raw_pages, full_text, lang, doc_uuid,
                   chunks, i, todo, pgVars, neoVars, fileVars, histVars>>
    /\ UNCHANGED <<chunkVars, extractVars>>

\* ------------------------------------------------------------- graph store
\* MERGE (n {uuid: $uuid}) over a node list: the list, with a node of that
\* uuid appended when none matches.
MergeNode(nodes, uuid, blank) ==
    IF \E k \in 1..Len(nodes) : nodes[k].uuid = uuid THEN nodes
    ELSE Append(nodes, [blank EXCEPT !.uuid = uuid])

\* Internal ids of the nodes a MERGE on uuid binds.
Matching(nodes, uuid) == {k \in 1..Len(nodes) : nodes[k].uuid = uuid}

BlankDocNode == [uuid |-> 0, name |-> "", path |-> "", language |-> ""]
BlankIndNode == [uuid |-> 0, value |-> "", type |-> ""]

\* Mutant of DocNodesAfterInsert: the attributes are set only when the MERGE
\* creates the node (ON CREATE SET).
DocNodesAfterInsert_OnCreate(nodes, uuid, name, path, language) ==
    IF \E k \in 1..Len(nodes) : nodes[k].uuid = uuid THEN nodes
    ELSE Append(nodes, [uuid |-> uuid, name |-> name, path |-> path,
                        language |-> language])

\* Neo4jRepository.insert_document: MERGE the Document node by uuid, then SET
\* name, path and language on it.
DocNodesAfterInsert(nodes, uuid, name, path, language) ==
    LET merged == MergeNode(nodes, uuid, BlankDocNode)
    IN  [k \in 1..Len(merged) |->
            IF merged[k].uuid = uuid
            THEN [uuid |-> uuid, name |-> name, path |-> path, language |-> language]
            ELSE merged[k]]

\* Mutant of IndNodesAfterMerge: the Indicator node is created, not merged.
IndNodesAfterMerge_Create(nodes, category, value) ==
    Append(nodes, [uuid |-> <<"uuid5", category \o ":" \o value>>, value |-> value,
                   type |-> category])

\* The first MERGE and SET of the insert_indicators query: the Indicator node
\* keyed by uuid5(category:value), with value and type set.
IndNodesAfterMerge(nodes, category, value) ==
    LET merged == MergeNode(nodes, IndicatorUuid(category, value), BlankIndNode)
    IN  [k \in 1..Len(merged) |->
            IF merged[k].uuid = IndicatorUuid(category, value)
            THEN [uuid |-> merged[k].uuid, value |-> value, type |-> category]
            ELSE merged[k]]

\* rel_uuid = str(uuid.uuid4())
RelationshipUuid == uuid4

\* Mutant of EdgesAfterMerge: the relationship is merged on page and
\* category alone.
EdgesAfterMerge_NoIdentity(inds, docs, document_uuid, page, category, value, rel_uuid) ==
    edges \cup
        {[src |-> a, dst |-> b, page |-> ToString(page), category |-> category,
          relationship_uuid |-> 0] :
            a \in {k \in 1..Len(inds) : inds[k].type = category /\ inds[k].value = value},
            b \in {k \in 1..Len(docs) : docs[k].uuid = document_uuid}}

\* The last MERGE of the query: a MENTIONED_IN relationship from every bound
\* Indicator node to every bound Document node, matched on all of its
\* properties (the page is stored as a string).
EdgesAfterMerge(inds, docs, document_uuid, page, category, value, rel_uuid) ==
    edges \cup
        {[src |-> a, dst |-> b, page |-> ToString(page), category |-> category,
          relationship_uuid |-> rel_uuid] :
            a \in Matching(inds, IndicatorUuid(category, value)),
            b \in Matching(docs, document_uuid)}

\* neo4j_repo = Neo4jRepository(neo4j_driver): the connectivity check passes.
NeoConnect ==
    /\ pc = "neo_connect"
    /\ pc' = "neo_doc"
    /\ UNCHANGED <<driverVars, localVars, pgVars, neoVars, fileVars, histVars>>
    /\ UNCHANGED <<chunkVars, extractVars>>

\* neo4j_repo.insert_document(doc_uuid, doc_name, str(pdf_path), lang), then
\* the per-page extraction that feeds insert_indicators.
NeoInsertDocument ==
    /\ pc = "neo_doc"
    /\ doc_nodes' = DocNodesAfterInsert(doc_nodes, doc_uuid, doc_name,
                                        PathStr(pdf_path), lang)
    /\ todo' = PageTriples(raw_pages)
    /\ pc' = "neo_ind"
    /\ UNCHANGED <<driverVars, pdf_path, doc_name, raw_pages, full_text, lang, doc_uuid,
                   chunks, i, neo4j_success, pgVars, ind_nodes, edges, fileVars,
                   histVars>>
    /\ UNCHANGED <<chunkVars, extractVars>>

\* One session.run of insert_indicators, for the next triple.
NeoInsertIndicator ==
    /\ pc = "neo_ind"
    /\ todo # << >>
    /\ LET page == Head(todo)[1]
           category == Head(todo)[2]
           value == Head(todo)[3]
           inds == IndNodesAfterMerge(ind_nodes, category, value)
           docs == MergeNode(doc_nodes, doc_uuid, BlankDocNode)
       IN  /\ ind_nodes' = inds
           /\ doc_nodes' = docs
           /\ edges' = EdgesAfterMerge(inds, docs, doc_uuid, page, category, value,
                                       RelationshipUuid)
    /\ todo' = Tail(todo)
    /\ UNCHANGED <<pc, driverVars, pdf_path, doc_name, raw_pages, full_text, lang,
                   doc_uuid, chunks, i, neo4j_success, pgVars, fileVars, histVars>>
    /\ UNCHANGED <<chunkVars, extractVars>>

\* insert_indicators returned: the graph phase is over without an error.
NeoDone ==
    /\ pc = "neo_ind"
    /\ todo = << >>
    /\ log' = LogSet("graph", "ok")
    /\ pc' = "save"
    /\ UNCHANGED <<driverVars, localVars, pgVars, neoVars, fileVars, visited, called,
                   runs>>
    /\ UNCHANGED <<chunkVars, extractVars>>

\* Mutant of NeoFail: the error of the graph step is not caught.
NeoFail_Raises ==
    /\ pc \in {"neo_connect", "neo_doc"} \/ (pc = "neo_ind" /\ todo # << >>)
    /\ log' = [log EXCEPT ![Len(log)] = [@ EXCEPT !.graph = "failed", !.res = "raised"]]
    /\ pc' = "raised"
    /\ UNCHANGED <<driverVars, localVars, pgVars, neoVars, fileVars, visited, called,
                   runs>>
    /\ UNCHANGED <<chunkVars, extractVars>>

\* Mutant of NeoFail: after a failed graph phase the run returns without
\* writing its artifact.
NeoFail_NoArtifact ==
    /\ pc \in {"neo_connect", "neo_doc"} \/ (pc = "neo_ind" /\ todo # << >>)
    /\ neo4j_success' = FALSE
    /\ todo' = << >>
    /\ log' = [log EXCEPT ![Len(log)] = [@ EXCEPT !.graph = "failed", !.res = "ok"]]
    /\ pc' = "returned"
    /\ UNCHANGED <<driverVars, pdf_path, doc_name, raw_pages, full_text, lang, doc_uuid,
                   chunks, i, pgVars, neoVars, fileVars, visited, called, runs>>
    /\ UNCHANGED <<chunkVars, extractVars>>

\* Mutant of NeoFail: the except branch logs the error and leaves the flag
\* as it is.
NeoFail_FlagKept ==
    /\ pc \in {"neo_connect", "neo_doc"} \/ (pc = "neo_ind" /\ todo # << >>)
    /\ todo' = << >>
    /\ log' = LogSet("graph", "failed")
    /\ pc' = "save"
    /\ UNCHANGED <<driverVars, pdf_path, doc_name, raw_pages, full_text, lang, doc_uuid,
                   chunks, i, neo4j_success, pgVars, neoVars, fileVars, visited, called,
                   runs>>
    /\ UNCHANGED <<chunkVars, extractVars>>

\* Mutant of NeoFail: the error undoes the edges written to the document.
NeoFail_RollsBack ==
    /\ pc \in {"neo_connect", "neo_doc"} \/ (pc = "neo_ind" /\ todo # << >>)
    /\ neo4j_success' = FALSE
    /\ todo' = << >>
    /\ log' = LogSet("graph", "failed")
    /\ pc' = "save"
    /\ edges' = {e \in edges : doc_nodes[e.dst].uuid # doc_uuid}
    /\ UNCHANGED <<driverVars, pdf_path, doc_name, raw_pages, full_text, lang, doc_uuid,
                   chunks, i, pgVars, doc_nodes, ind_nodes, fileVars, visited, called,
                   runs>>
    /\ UNCHANGED <<chunkVars, extractVars>>

\* Any step of the graph phase raises: the inner except branch sets
\* neo4j_success = False and the pipeline goes on.
NeoFail ==
    /\ pc \in {"neo_connect", "neo_doc"} \/ (pc = "neo_ind" /\ todo # << >>)
    /\ neo4j_success' = FALSE
    /\ todo' = << >>
    /\ log' = LogSet("graph", "failed")
    /\ pc' = "save"
    /\ UNCHANGED <<driverVars, pdf_path, doc_name, raw_pages, full_text, lang, doc_uuid,
                   chunks, i, pgVars, neoVars, fileVars, visited, called, runs>>
    /\ UNCHANGED <<chunkVars, extractVars>>

\* ---------------------------------------------------------------- artifacts
\* indicators_dict with its "_metadata" block.
IndicatorsDict ==
    [indicators |-> extract_indicators_by_category(full_text),
     metadata |-> [document_uuid |-> doc_uuid, document_name |-> doc_name,
                   language |-> lang, total_pages |-> Len(raw_pages),
                   neo4j_success |-> neo4j_success]]

\* FileManager.save_clean_and_json writes both files; then process_pdf prints
\* its status line and returns.
SaveCleanAndJson ==
    /\ pc = "save"
    /\ artifacts' = [artifacts EXCEPT ![doc_name] =
                        {[clean |-> full_text, json |-> IndicatorsDict]}]
    /\ log' = LogSet("res", "ok")
    /\ pc' = "returned"
    /\ UNCHANGED <<driverVars, localVars, pgVars, neoVars, visited, called, runs>>
    /\ UNCHANGED <<chunkVars, extractVars>>

\* The places of the outer try block where a call can raise.
RaisingSteps == {"extract", "clean", "upsert", "chunk", "insert_chunk", "save"}

\* Mutant of Raise: the except branch logs the error and does not re-raise.
Raise_Swallowed ==
    /\ pc \in {"extract", "clean", "upsert", "chunk", "insert_chunk", "save"}
    /\ pc = "insert_chunk" => i <= Len(chunks)
    /\ log' = [log EXCEPT ![Len(log)] = [@ EXCEPT !.res = "raised"]]
    /\ pc' = "returned"
    /\ UNCHANGED <<driverVars, localVars, pgVars, neoVars, fileVars, visited, called,
                   runs>>
    /\ UNCHANGED <<chunkVars, extractVars>>

\* Mutant of Raise: the error rolls back the chunk rows of the document.
Raise_RollsBack ==
    /\ pc \in RaisingSteps
    /\ pc = "insert_chunk" => i <= Len(chunks)
    /\ log' = LogSet("res", "raised")
    /\ pc' = "raised"
    /\ chunk_rows' = {c \in chunk_rows : c.document_uuid # doc_uuid}
    /\ UNCHANGED <<driverVars, localVars, documents, neoVars, fileVars, visited, called,
                   runs>>
    /\ UNCHANGED <<chunkVars, extractVars>>

\* A call of the outer try block raises: the except branch logs and re-raises.
Raise ==
    /\ pc \in RaisingSteps
    /\ pc = "insert_chunk" => i <= Len(chunks)
    /\ log' = LogSet("res", "raised")
    /\ pc' = "raised"
    /\ UNCHANGED <<driverVars, localVars, pgVars, neoVars, fileVars, visited, called,
                   runs>>
    /\ UNCHANGED <<chunkVars, extractVars>>

\* ------------------------------------------------------------ specification
Next ==
    \/ ProcessMultipleEmpty
    \/ \E list \in ListsUpTo(MaxRuns) : ProcessMultipleStart(list)
    \/ ForMissing
    \/ ForCall
    \/ DriverReturn
    \/ DriverCatch
    \/ ForEnd
    \/ ExtractText
    \/ CleanAndJoin
    \/ DetectLanguage
    \/ InsertDocument
    \/ \E ok \in BOOLEAN : ChunkText(ok)
    \/ InsertChunk
    \/ GraphPhaseStart
    \/ NeoConnect
    \/ NeoInsertDocument
    \/ NeoInsertIndicator
    \/ NeoDone
    \/ NeoFail
    \/ SaveCleanAndJson
    \/ Raise

Spec == Init /\ [][Next]_vars

\* ------------------------------------------------ chunk_text, step by step
\* TextProcessor.chunk_text called on its own, one statement per step, with
\* every text of at most MaxTextLen tokens as input.  Sizes are in words, as
\* in the pipeline: SegWords stands for config.CHUNK_SIZE.
MaxTextLen == 4

ChunkTokens == {"see", "voir", " "}
ChunkTexts == UNION {[1..n -> ChunkTokens] : n \in 0..MaxTextLen}

RECURSIVE Sentences(_)
\* What the primary splitter may return for a list of words: the words cut
\* into consecutive sentences wherever the language pipeline sees a boundary.
\* A sentence is never cut, so a segment may be of any length.
Sentences(ws) ==
    IF ws = << >> THEN {<< >>}
    ELSE UNION {{<<SubSeq(ws, 1, n)>> \o rest :
                    rest \in Sentences(SubSeq(ws, n + 1, Len(ws)))} : n \in 1..Len(ws)}

\* A call chunk_text(text, language, use_spacy) is about to run.
ChunkInit ==
    /\ PipelineIdle
    /\ ~neo4j_driver
    /\ ExtractIdle
    /\ ct_pc = "start"
    /\ ct_text \in ChunkTexts
    /\ use_spacy \in BOOLEAN
    /\ spacy_chunks = << >>
    /\ final_chunks = << >>
    /\ ct_k = 0
    /\ ct_return = << >>

\* "if use_spacy:" is true; the splitter is built and chunks =
\* splitter.split_text(text) returns cs; final_chunks = [].
SpacySplitText(cs) ==
    /\ ct_pc = "start"
    /\ use_spacy
    /\ spacy_chunks' = cs
    /\ final_chunks' = << >>
    /\ ct_k' = 1
    /\ ct_pc' = "post"
    /\ UNCHANGED <<ct_text, use_spacy, ct_return, pipelineVars, extractVars>>

\* "if use_spacy:" is false: straight to the recursive splitter.
SkipSpacy ==
    /\ ct_pc = "start"
    /\ ~use_spacy
    /\ ct_pc' = "fallback"
    /\ UNCHANGED <<ct_text, use_spacy, spacy_chunks, final_chunks, ct_k, ct_return,
                   pipelineVars, extractVars>>

\* Loop body, len(chunk) <= chunk_size: final_chunks.append(chunk).
PostKeep ==
    /\ ct_pc = "post"
    /\ ct_k <= Len(spacy_chunks)
    /\ Len(spacy_chunks[ct_k]) <= SegWords
    /\ final_chunks' = Append(final_chunks, spacy_chunks[ct_k])
    /\ ct_k' = ct_k + 1
    /\ UNCHANGED <<ct_pc, ct_text, use_spacy, spacy_chunks, ct_return, pipelineVars,
                   extractVars>>

\* Mutant of PostResplit: the oversized segment is appended as it is.
PostResplit_Append ==
    /\ ct_pc = "post"
    /\ ct_k <= Len(spacy_chunks)
    /\ Len(spacy_chunks[ct_k]) > SegWords
    /\ final_chunks' = Append(final_chunks, spacy_chunks[ct_k])
    /\ ct_k' = ct_k + 1
    /\ UNCHANGED <<ct_pc, ct_text, use_spacy, spacy_chunks, ct_return, pipelineVars,
                   extractVars>>

\* Loop body, len(chunk) > chunk_size: the recursive splitter re-splits the
\* segment and final_chunks.extend(sub_chunks).
PostResplit ==
    /\ ct_pc = "post"
    /\ ct_k <= Len(spacy_chunks)
    /\ Len(spacy_chunks[ct_k]) > SegWords
    /\ final_chunks' = final_chunks \o RecursiveSplit(spacy_chunks[ct_k])
    /\ ct_k' = ct_k + 1
    /\ UNCHANGED <<ct_pc, ct_text, use_spacy, spacy_chunks, ct_return, pipelineVars,
                   extractVars>>

\* The loop is over: return final_chunks.
PostReturn ==
    /\ ct_pc = "post"
    /\ ct_k > Len(spacy_chunks)
    /\ ct_return' = final_chunks
    /\ ct_pc' = "done"
    /\ UNCHANGED <<ct_text, use_spacy, spacy_chunks, final_chunks, ct_k, pipelineVars,
                   extractVars>>

\* Mutant of SpacyExcept: the error of the primary path leaves chunk_text.
SpacyExcept_Raises ==
    /\ (ct_pc = "start" /\ use_spacy) \/ (ct_pc = "post" /\ ct_k <= Len(spacy_chunks))
    /\ ct_pc' = "raised"
    /\ UNCHANGED <<ct_text, use_spacy, spacy_chunks, final_chunks, ct_k, ct_return,
                   pipelineVars, extractVars>>

\* A statement of the try block raises (building the splitter, split_text,
\* or an iteration of the loop): "except Exception" prints the warning and
\* sets use_spacy = False.
SpacyExcept ==
    /\ (ct_pc = "start" /\ use_spacy) \/ (ct_pc = "post" /\ ct_k <= Len(spacy_chunks))
    /\ use_spacy' = FALSE
    /\ ct_pc' = "fallback"
    /\ UNCHANGED <<ct_text, spacy_chunks, final_chunks, ct_k, ct_return, pipelineVars,
                   extractVars>>

\* "if not use_spacy:" return splitter.split_text(text) of the recursive
\* splitter, over the whole text.
FallbackSplit ==
    /\ ct_pc = "fallback"
    /\ ct_return' = RecursiveSplit(ct_text)
    /\ ct_pc' = "done"
    /\ UNCHANGED <<ct_text, use_spacy, spacy_chunks, final_chunks, ct_k, pipelineVars,
                   extractVars>>

\* The recursive splitter itself raises: nothing catches it.
FallbackRaise ==
    /\ ct_pc = "fallback"
    /\ ct_pc' = "raised"
    /\ UNCHANGED <<ct_text, use_spacy, spacy_chunks, final_chunks, ct_k, ct_return,
                   pipelineVars, extractVars>>

ChunkNext ==
    \/ \E cs \in Sentences(Words(ct_text)) : SpacySplitText(cs)
    \/ SkipSpacy
    \/ PostKeep
    \/ PostResplit
    \/ PostReturn
    \/ SpacyExcept
    \/ FallbackSplit
    \/ FallbackRaise

ChunkSpec == ChunkInit /\ [][ChunkNext]_vars

\* ------------------------------------------- the extractor on characters
\* IndicatorExtractor.extract_indicators_by_category on a text given as a
\* sequence of characters.  A match, and an indicator value, is a sequence of
\* characters too.

\* The printable ASCII characters in code point order, from 32 (space); the
\* grave accent, which no text of the model holds, is written by its name.
Ascii ==
    <<" ", "!", "\"", "#", "$", "%", "&", "'", "(", ")", "*", "+", ",", "-", ".",
      "/", "0", "1", "2", "3", "4", "5", "6", "7", "8", "9", ":", ";", "<", "=",
      ">", "?", "@", "A", "B", "C", "D", "E", "F", "G", "H", "I", "J", "K", "L",
      "M", "N", "O", "P", "Q", "R", "S", "T", "U", "V", "W", "X", "Y", "Z", "[",
      "\\", "]", "^", "_", "grave", "a", "b", "c", "d", "e", "f", "g", "h", "i", "j",
      "k", "l", "m", "n", "o", "p", "q", "r", "s", "t", "u", "v", "w", "x", "y",
      "z", "{", "|", "}", "~">>

\* ord(c)
Code(c) ==
    IF c = "\n" THEN 10
    ELSE IF c = "\t" THEN 9
    ELSE 31 + (CHOOSE k \in 1..Len(Ascii) : Ascii[k] = c)

Digits == {Ascii[k] : k \in 17..26}
UpperCase == {Ascii[k] : k \in 34..59}
LowerCase == {Ascii[k] : k \in 66..91}
Letters == UpperCase \cup LowerCase
\* \w, on ASCII
WordChars == Letters \cup Digits \cup {"_"}
\* \s
WhiteSpace == {" ", "\n", "\t"}
AllChars == {Ascii[k] : k \in 1..Len(Ascii)} \cup {"\n", "\t"}

\* str.lower()
LowerChar(c) == IF c \in UpperCase THEN Ascii[Code(c) + 1] ELSE c
Lower(v) == [k \in 1..Len(v) |-> LowerChar(v[k])]

\* The position after the longest run of characters of a class from p on.
RunEnd(t, p, class) ==
    CHOOSE q \in p..(Len(t) + 1) :
        /\ \A r \in p..(q - 1) : t[r] \in class
        /\ q = Len(t) + 1 \/ t[q] \notin class

\* \b before position p: exactly one of the characters around is a word one.
IsWordAt(t, p) == p \in 1..Len(t) /\ t[p] \in WordChars
Boundary(t, p) == IsWordAt(t, p - 1) # IsWordAt(t, p)

\* The literal lit is in t at position p.
LiteralAt(t, p, lit) ==
    /\ p + Len(lit) - 1 <= Len(t)
    /\ \A k \in 1..Len(lit) : t[p + k - 1] = lit[k]

\* v.endswith(suffix)
EndsWith(v, suffix) ==
    /\ Len(suffix) <= Len(v)
    /\ SubSeq(v, Len(v) - Len(suffix) + 1, Len(v)) = suffix

\* The regex engine on each pattern: the position after the match that
\* starts at p, or 0 when none starts there.  Each quantifier is greedy and
\* backtracks; the comments say why the result is the one the engine finds.

RECURSIVE GroupEnds(_, _)
\* (?:[a-zA-Z0-9-]+\.)+ from p: the positions after one, two, ... groups.  A
\* label cannot end before its run of label characters does, the dot not
\* being one of them.
GroupEnds(t, p) ==
    LET e == RunEnd(t, p, Letters \cup Digits \cup {"-"})
    IN  IF e > p /\ e <= Len(t) /\ t[e] = "."
        THEN <<e + 1>> \o GroupEnds(t, e + 1)
        ELSE << >>

\* [a-zA-Z]{2,6}\b from p: the whole run of letters, if it has 2 to 6 of
\* them and a word boundary follows (after fewer letters comes a letter).
TldEnd(t, p) ==
    LET e == RunEnd(t, p, Letters)
    IN  IF (e - p) \in 2..6 /\ Boundary(t, e) THEN e ELSE 0

\* domain_pattern = r"\b(?:[a-zA-Z0-9-]+\.)+[a-zA-Z]{2,6}\b": as many groups
\* as leave a top-level label behind them.
domain_pattern(t, p) ==
    LET g == GroupEnds(t, p)
        ok == {k \in 1..Len(g) : TldEnd(t, g[k]) # 0}
    IN  IF ~Boundary(t, p) \/ ok = {} THEN 0
        ELSE TldEnd(t, g[CHOOSE k \in ok : \A j \in ok : j <= k])

\* url_pattern = r"https?://[^\s/$.?#].[^\s]*": the scheme, one character
\* that is none of the excluded ones, any one character but a newline, then
\* the run of non-space characters.
url_pattern(t, p) ==
    LET a == IF LiteralAt(t, p, <<"h", "t", "t", "p", "s", ":", "/", "/">>) THEN p + 8
             ELSE IF LiteralAt(t, p, <<"h", "t", "t", "p", ":", "/", "/">>) THEN p + 7
             ELSE 0
    IN  IF a = 0 \/ a + 1 > Len(t) THEN 0
        ELSE IF t[a] \in WhiteSpace \cup {"/", "$", ".", "?", "#"} \/ t[a + 1] = "\n" THEN 0
        ELSE RunEnd(t, a + 2, AllChars \ WhiteSpace)

\* \d{1,3} followed by a non-digit: the whole run of digits, if 1 to 3.
OctetEnd(t, p) ==
    LET e == RunEnd(t, p, Digits) IN IF (e - p) \in 1..3 THEN e ELSE 0

\* ip_pattern = r"\b(?:\d{1,3}\.){3}\d{1,3}\b"
ip_pattern(t, p) ==
    LET e1 == OctetEnd(t, p)
        e2 == IF e1 # 0 /\ LiteralAt(t, e1, <<".">>) THEN OctetEnd(t, e1 + 1) ELSE 0
        e3 == IF e2 # 0 /\ LiteralAt(t, e2, <<".">>) THEN OctetEnd(t, e2 + 1) ELSE 0
        e4 == IF e3 # 0 /\ LiteralAt(t, e3, <<".">>) THEN OctetEnd(t, e3 + 1) ELSE 0
    IN  IF Boundary(t, p) /\ e4 # 0 /\ Boundary(t, e4) THEN e4 ELSE 0

\* email_pattern = r"[a-zA-Z0-9._%+-]+@[a-zA-Z0-9.-]+\.[a-zA-Z]{2,}": the
\* local part up to the "@", the domain part up to the last dot of its run
\* that has two letters after it, then the run of letters.
email_pattern(t, p) ==
    LET e1 == RunEnd(t, p, Letters \cup Digits \cup {".", "_", "%", "+", "-"})
        a == e1 + 1
        b == RunEnd(t, a, Letters \cup Digits \cup {".", "-"})
        dots == {q \in (a + 1)..(b - 1) :
                    /\ t[q] = "."
                    /\ q + 2 <= Len(t)
                    /\ t[q + 1] \in Letters
                    /\ t[q + 2] \in Letters}
    IN  IF e1 = p \/ ~LiteralAt(t, e1, <<"@">>) \/ dots = {} THEN 0
        ELSE RunEnd(t, (CHOOSE q \in dots : \A r \in dots : r <= q) + 1, Letters)

\* social_pattern = r"@[\w\-]+"
social_pattern(t, p) ==
    LET e == RunEnd(t, p + 1, WordChars \cup {"-"})
    IN  IF LiteralAt(t, p, <<"@">>) /\ e > p + 1 THEN e ELSE 0

\* r"\bUA-\d{4,}-\d+\b"
ua_pattern(t, p) ==
    LET d1 == RunEnd(t, p + 3, Digits)
        d2 == RunEnd(t, d1 + 1, Digits)
    IN  IF /\ Boundary(t, p)
           /\ LiteralAt(t, p, <<"U", "A", "-">>)
           /\ d1 - (p + 3) >= 4
           /\ LiteralAt(t, d1, <<"-">>)
           /\ d2 > d1 + 1
           /\ Boundary(t, d2)
        THEN d2 ELSE 0

\* r"\bPub-\d{5,}\b"
pub_pattern(t, p) ==
    LET d == RunEnd(t, p + 4, Digits)
    IN  IF /\ Boundary(t, p)
           /\ LiteralAt(t, p, <<"P", "u", "b", "-">>)
           /\ d - (p + 4) >= 5
           /\ Boundary(t, d)
        THEN d ELSE 0

MatchEnd(pattern, t, p) ==
    CASE pattern = "domain_pattern" -> domain_pattern(t, p)
      [] pattern = "url_pattern" -> url_pattern(t, p)
      [] pattern = "ip_pattern" -> ip_pattern(t, p)
      [] pattern = "email_pattern" -> email_pattern(t, p)
      [] pattern = "social_pattern" -> social_pattern(t, p)
      [] pattern = "ua_pattern" -> ua_pattern(t, p)
      [] pattern = "pub_pattern" -> pub_pattern(t, p)

RECURSIVE FindFrom(_, _, _)
\* The scan of re.findall from position p: the leftmost match, then on from
\* its end.
FindFrom(pattern, t, p) ==
    IF p > Len(t) THEN << >>
    ELSE LET e == MatchEnd(pattern, t, p)
         IN  IF e > p THEN <<SubSeq(t, p, e - 1)>> \o FindFrom(pattern, t, e)
             ELSE FindFrom(pattern, t, p + 1)

\* re.findall(pattern, text): the matches, in text order.
findall(pattern, t) == FindFrom(pattern, t, 1)

\* Mutant of file_exts: the list also excludes "exe".
file_exts_WithExe ==
    {<<"p", "d", "f">>, <<"h", "t", "m", "l">>, <<"h", "t", "m">>,
     <<"j", "p", "g">>, <<"j", "p", "e", "g">>, <<"p", "n", "g">>,
     <<"g", "i", "f">>, <<"b", "m", "p">>, <<"t", "i", "f", "f">>,
     <<"m", "p", "4">>, <<"m", "o", "v">>, <<"a", "v", "i">>,
     <<"w", "e", "b", "p">>, <<"e", "x", "e">>}

\* The file extensions a domain match must not end with.
file_exts ==
    {<<"p", "d", "f">>, <<"h", "t", "m", "l">>, <<"h", "t", "m">>,
     <<"j", "p", "g">>, <<"j", "p", "e", "g">>, <<"p", "n", "g">>,
     <<"g", "i", "f">>, <<"b", "m", "p">>, <<"t", "i", "f", "f">>,
     <<"m", "p", "4">>, <<"m", "o", "v">>, <<"a", "v", "i">>,
     <<"w", "e", "b", "p">>}

\* int(octet), and ipaddress.ip_address(match) not raising ValueError: four
\* octets of at most 255 each, none written with a leading zero when the
\* library is strict about that (Python 3.9.5 and later).
DigitValue(c) == Code(c) - 48

RECURSIVE OctetsOf(_, _)
\* match.split(".")
OctetsOf(v, p) ==
    LET e == RunEnd(v, p, AllChars \ {"."})
    IN  IF e > Len(v) THEN <<SubSeq(v, p, Len(v))>>
        ELSE <<SubSeq(v, p, e - 1)>> \o OctetsOf(v, e + 1)

RECURSIVE IntOf(_)
IntOf(ds) == IF ds = << >> THEN 0
             ELSE 10 * IntOf(SubSeq(ds, 1, Len(ds) - 1)) + DigitValue(ds[Len(ds)])

ip_address_ok(v, strict) ==
    LET os == OctetsOf(v, 1)
    IN  /\ Len(os) = 4
        /\ \A k \in 1..4 :
              /\ os[k] # << >>
              /\ IntOf(os[k]) <= 255
              /\ strict => ~(Len(os[k]) > 1 /\ os[k][1] = "0")

\* Python's order on strings: by code points, a proper prefix first.
LexLess(a, b) ==
    \E k \in 1..(Len(a) + 1) :
        /\ \A j \in 1..(k - 1) : j <= Len(b) /\ a[j] = b[j]
        /\ k <= Len(b)
        /\ k > Len(a) \/ Code(a[k]) < Code(b[k])

RECURSIVE sorted(_)
\* sorted(v) of a set of strings.
sorted(S) ==
    IF S = {} THEN << >>
    ELSE LET m == CHOOSE x \in S : \A y \in S : x = y \/ LexLess(x, y)
         IN  <<m>> \o sorted(S \ {m})

\* set(list)
Range(q) == {q[k] : k \in 1..Len(q)}

\* ----------------------------------------- the extractor, step by step
\* IndicatorExtractor.extract_indicators_by_category called on its own, one
\* category per step.  Its inputs: every text of at most MaxTokens words of
\* a vocabulary, separated by single spaces; every dotted quad over a set of
\* octets; and the text of the end-to-end scenario.
MaxTokens == 2

ExtractVocabulary ==
    {<<"8", ".", "8", ".", "8", ".", "8">>,
     <<"9", "9", "9", ".", "1", ".", "1", ".", "1">>,
     <<"E", "v", "i", "l", ".", "t", "e", "s", "t">>,
     <<"e", "v", "i", "l", ".", "t", "e", "s", "t">>, <<"a", ".", "i", "o">>,
     <<"r", "e", "p", "o", "r", "t", ".", "p", "d", "f">>,
     <<"x", "@", "y", ".", "z", "z">>, <<"@", "b", "o", "b">>,
     <<"U", "A", "-", "1", "2", "3", "4", "-", "1">>,
     <<"P", "u", "b", "-", "1", "2", "3", "4", "5">>, <<"s", "e", "e">>,
     <<"h", "t", "t", "p", ":", "/", "/", "a", ".", "i", "o", "/", "b">>,
     <<"+", "1", "6", "5", "0", "2", "5", "3", "0", "0", "0", "0">>}

OctetStrings == {<<"0">>, <<"1">>, <<"2", "5", "5">>, <<"2", "5", "6">>, <<"0", "8">>}

ScenarioText ==
    <<"E", "m", "a", "i", "l", ":", " ", "a", "l", "e", "r", "t", "s", "@", "t",
      "i", "-", "e", "x", "a", "m", "p", "l", "e", ".", "c", "o", "m", ",", " ",
      "I", "P", " ", "1", "0", ".", "0", ".", "0", ".", "5", ",", " ", "s", "e",
      "e", " ", "h", "t", "t", "p", "s", ":", "/", "/", "b", "a", "d", "-", "d",
      "o", "m", "a", "i", "n", ".", "t", "e", "s", "t", "/", "p", "a", "y", "l",
      "o", "a", "d", ".", "e", "x", "e">>

RECURSIVE JoinWith(_, _)
\* sep.join(parts)
JoinWith(parts, sep) ==
    IF parts = << >> THEN << >>
    ELSE IF Len(parts) = 1 THEN parts[1]
    ELSE parts[1] \o sep \o JoinWith(Tail(parts), sep)

DottedQuads == {JoinWith(q, <<".">>) : q \in [1..4 -> OctetStrings]}

ExtractTexts ==
    {JoinWith(ws, <<" ">>) : ws \in UNION {[1..n -> ExtractVocabulary] : n \in 0..MaxTokens}}
        \cup DottedQuads \cup {ScenarioText}

CategorySet == {Categories[k] : k \in 1..Len(Categories)}

\* regions = ["US", "NP", "FR", "DE"]
regions == <<"US", "NP", "FR", "DE">>

\* The number in international format that the vocabulary holds.
PhoneToken == <<"+", "1", "6", "5", "0", "2", "5", "3", "0", "0", "0", "0">>

\* The E.164 forms of the numbers phonenumbers.PhoneNumberMatcher(text,
\* region) finds: a number written in international format is found under
\* every region, and the texts of the model hold no other number.
PhoneMatches(t, region) ==
    IF \E p \in 1..Len(t) : LiteralAt(t, p, PhoneToken) THEN {PhoneToken} ELSE {}

\* A call extract_indicators_by_category(text) is about to run; indicators
\* holds an empty set for each category.
ExtractInit ==
    /\ PipelineIdle
    /\ ~neo4j_driver
    /\ ChunkIdle
    /\ ex_pc = "domains"
    /\ ex_text \in ExtractTexts
    /\ ex_indicators = [c \in CategorySet |-> {}]
    /\ ex_return = << >>
    /\ ip_strict \in BOOLEAN

\* Domains: every match not ending with a file extension, lower-cased.
FindDomains ==
    /\ ex_pc = "domains"
    /\ ex_indicators' =
          [ex_indicators EXCEPT !["domains"] = @ \cup
              {Lower(m) : m \in {x \in Range(findall("domain_pattern", ex_text)) :
                                    ~\E ext \in file_exts :
                                        EndsWith(Lower(x), <<".">> \o ext)}}]
    /\ ex_pc' = "urls"
    /\ UNCHANGED <<ex_text, ex_return, ip_strict, pipelineVars, chunkVars>>

\* URLs: every match, as it is.
FindUrls ==
    /\ ex_pc = "urls"
    /\ ex_indicators' =
          [ex_indicators EXCEPT !["urls"] = @ \cup Range(findall("url_pattern", ex_text))]
    /\ ex_pc' = "ips"
    /\ UNCHANGED <<ex_text, ex_return, ip_strict, pipelineVars, chunkVars>>

\* Mutant of FindIps: every match is added, without the validation.
FindIps_NoValidation ==
    /\ ex_pc = "ips"
    /\ ex_indicators' =
          [ex_indicators EXCEPT !["ips"] = @ \cup Range(findall("ip_pattern", ex_text))]
    /\ ex_pc' = "emails"
    /\ UNCHANGED <<ex_text, ex_return, ip_strict, pipelineVars, chunkVars>>

\* IPs: every match that ipaddress.ip_address accepts; a ValueError skips
\* the match.
FindIps ==
    /\ ex_pc = "ips"
    /\ ex_indicators' =
          [ex_indicators EXCEPT !["ips"] = @ \cup
              {m \in Range(findall("ip_pattern", ex_text)) : ip_address_ok(m, ip_strict)}]
    /\ ex_pc' = "emails"
    /\ UNCHANGED <<ex_text, ex_return, ip_strict, pipelineVars, chunkVars>>

\* Emails: every match, lower-cased.
FindEmails ==
    /\ ex_pc = "emails"
    /\ ex_indicators' =
          [ex_indicators EXCEPT !["emails"] = @ \cup
              {Lower(m) : m \in Range(findall("email_pattern", ex_text))}]
    /\ ex_pc' = "phones"
    /\ UNCHANGED <<ex_text, ex_return, ip_strict, pipelineVars, chunkVars>>

\* Phones: the numbers found under each region, in E.164 form.
FindPhones ==
    /\ ex_pc = "phones"
    /\ ex_indicators' =
          [ex_indicators EXCEPT !["phones"] = @ \cup
              UNION {PhoneMatches(ex_text, regions[k]) : k \in 1..Len(regions)}]
    /\ ex_pc' = "social_handles"
    /\ UNCHANGED <<ex_text, ex_return, ip_strict, pipelineVars, chunkVars>>

\* Social handles: every match, as it is.
FindSocialHandles ==
    /\ ex_pc = "social_handles"
    /\ ex_indicators' =
          [ex_indicators EXCEPT !["social_handles"] = @ \cup
              Range(findall("social_pattern", ex_text))]
    /\ ex_pc' = "tracking_ids"
    /\ UNCHANGED <<ex_text, ex_return, ip_strict, pipelineVars, chunkVars>>

\* Tracking IDs: the matches of the two patterns.
FindTrackingIds ==
    /\ ex_pc = "tracking_ids"
    /\ ex_indicators' =
          [ex_indicators EXCEPT !["tracking_ids"] = @ \cup
              Range(findall("ua_pattern", ex_text)) \cup
              Range(findall("pub_pattern", ex_text))]
    /\ ex_pc' = "return"
    /\ UNCHANGED <<ex_text, ex_return, ip_strict, pipelineVars, chunkVars>>

\* Mutant of ReturnSorted: list(v), the values in an order in which the set
\* happens to be iterated (here the descending one).
ReturnSorted_ListOrder ==
    /\ ex_pc = "return"
    /\ ex_return' = [c \in DOMAIN ex_indicators |->
                        LET q == sorted(ex_indicators[c])
                        IN  [k \in 1..Len(q) |-> q[Len(q) + 1 - k]]]
    /\ ex_pc' = "done"
    /\ UNCHANGED <<ex_text, ex_indicators, ip_strict, pipelineVars, chunkVars>>

\* return {k: sorted(v) for k, v in indicators.items()}
ReturnSorted ==
    /\ ex_pc = "return"
    /\ ex_return' = [c \in DOMAIN ex_indicators |-> sorted(ex_indicators[c])]
    /\ ex_pc' = "done"
    /\ UNCHANGED <<ex_text, ex_indicators, ip_strict, pipelineVars, chunkVars>>

ExtractNext ==
    \/ FindDomains
    \/ FindUrls
    \/ FindIps
    \/ FindEmails
    \/ FindPhones
    \/ FindSocialHandles
    \/ FindTrackingIds
    \/ ReturnSorted

ExtractSpec == ExtractInit /\ [][ExtractNext]_vars

\* =================================================================== claims
\* Helpers of the properties below.
Last == log[Len(log)]

\* The log records of the batch in progress (or of the last batch).
BatchLog == SubSeq(log, Len(log) - Len(called) + 1, Len(log))

\* Calls of this batch that returned without raising.
BatchReturned == {k \in 1..Len(BatchLog) : BatchLog[k].res = "ok"}

InProcessPdf == pc \notin {"idle", "loop"}
BatchOver == pc = "idle" /\ reported # NoReport

\* ------------------------------------------------------------------------ C1
\* C1: an exception of process_pdf never aborts the batch.  While the loop
\* runs, the paths visited so far are exactly the first paths of the list,
\* once each and in list order; the paths passed to process_pdf are exactly
\* the existing ones among them; and when the batch is over every path of
\* the list has been visited and every existing one has been passed to
\* process_pdf, whatever failed before it.
C1_BatchNeverAborts ==
    /\ pc = "loop" => visited = SubSeq(pdfs, 1, idx - 1)
    /\ InProcessPdf => visited = SubSeq(pdfs, 1, idx)
    /\ called = SelectSeq(visited, Exists)
    /\ BatchOver => visited = pdfs /\ called = SelectSeq(pdfs, Exists)

\* A finished batch of two existing paths whose first call raised and whose
\* second call was still made and returned.
C1_Witness ==
    /\ BatchOver
    /\ Len(called) = 2
    /\ BatchLog[1].res = "raised"
    /\ BatchLog[2].res = "ok"

\* ------------------------------------------------------------------------ C3
\* What the program does once process_pdf has raised.
C3_RaiseStep ==
    pc = "raised" =>
        /\ pc' = "loop"
        /\ idx' = idx + 1
        /\ processed_count' = processed_count
        /\ UNCHANGED <<pgVars, neoVars, fileVars>>

\* C3: a failure in a required phase aborts the document and is re-raised
\* to the driver, which does not count it.  Once process_pdf has raised, the
\* only step is the driver's except branch: the loop moves on, the counter
\* and every store stay as they are; and the counter never exceeds the
\* number of calls of this batch that returned.
C3_RequiredFailureAborts ==
    /\ [](pc = "raised" => Last.res = "raised")
    /\ [](pc \in {"idle", "loop"} => processed_count <= Cardinality(BatchReturned))
    /\ [][C3_RaiseStep]_vars

\* The driver is back in its loop after a call that raised while inserting
\* chunks (the text was already chunked), and has counted nothing.
C3_Witness ==
    /\ pc = "loop"
    /\ Len(called) = 1
    /\ Last.res = "raised"
    /\ Last.n > 0
    /\ processed_count = 0

NeoPcs == {"neo_connect", "neo_doc", "neo_ind"}

\* The rows the current run has written are in the relational store.
RunRowsPresent ==
    /\ \E r \in documents : r.uuid = doc_uuid /\ r.name = doc_name
    /\ \A k \in 1..Len(chunks) :
          \E c \in chunk_rows :
              /\ c.document_uuid = doc_uuid
              /\ c.page = k
              /\ c.text = chunks[k]
              /\ c.language = lang

\* C2 as stated: a run whose graph phase failed never raises (its artifacts
\* are written and it is counted).
C2_Original == (InProcessPdf /\ Last.graph = "failed") => pc # "raised"

\* The steps of and after the graph phase.
C2_GraphStep ==
    /\ pc \in NeoPcs => (pc' \in NeoPcs \cup {"save"} /\ UNCHANGED pgVars)
    /\ (pc' = "raised" /\ Last.graph = "failed") => pc = "save"
    /\ (pc = "returned" /\ ~neo4j_success) => processed_count' = processed_count + 1

\* C2, amended: a failure of a graph step is caught locally.  The run leaves
\* the graph phase only for the artifact write, never by raising, and the
\* relational rows are untouched by the graph phase; with the flag false the
\* rows of the run are still in the store; a run that returns with the flag
\* false has written its artifacts with neo4j_success = false and is counted
\* by the driver.  Such a run raises only if the artifact write itself raises.
C2_GraphFailureAbsorbed ==
    /\ []((InProcessPdf /\ Last.graph = "failed") =>
            (~neo4j_success /\ neo4j_driver /\ pc \in {"save", "returned", "raised"}))
    /\ []((pc \in {"save", "returned"} /\ ~neo4j_success) => RunRowsPresent)
    /\ []((pc = "returned" /\ ~neo4j_success) =>
            \E a \in artifacts[doc_name] :
                /\ a.json.metadata.neo4j_success = FALSE
                /\ a.json.metadata.document_uuid = doc_uuid)
    /\ [][C2_GraphStep]_vars

\* The driver has counted a document whose graph phase failed; its rows and
\* its artifacts, flagged false, are there.
C2_Witness ==
    /\ pc = "loop"
    /\ processed_count = 1
    /\ Last.graph = "failed"
    /\ Last.res = "ok"
    /\ \E a \in artifacts[Stem(Last.path)] :
          /\ a.json.metadata.neo4j_success = FALSE
          /\ \E c \in chunk_rows : c.document_uuid = a.json.metadata.document_uuid

\* ------------------------------------------------------------------------ C5
DocRows(name) == {r \in documents : r.name = name}

\* The step in which insert_document returns.
C5_UpsertStep ==
    (pc = "upsert" /\ pc' = "chunk") =>
        /\ \E r \in documents' : r.name = doc_name /\ r.uuid = doc_uuid'
        /\ DocRows(doc_name) # {} =>
              /\ documents' = documents
              /\ doc_uuid' \in {r.uuid : r \in DocRows(doc_name)}

\* C5: insert_document is idempotent by name.  Every call returns the uuid
\* of the stored row of that name; a call that finds a row of that name
\* writes nothing (the row keeps the path and language of the first call)
\* and returns that row's uuid.
C5_InsertDocumentIdempotent == [][C5_UpsertStep]_vars

\* A second call for a stored name, with another path and another language,
\* has returned the stored identity and the row kept its first values.
C5_Witness ==
    /\ pc = "chunk"
    /\ \E r \in documents :
          /\ r.name = doc_name
          /\ r.uuid = doc_uuid
          /\ r.path # PathStr(pdf_path)
          /\ r.language # lang

\* ------------------------------------------------------------------------ C6
\* Every stored row is still there, under its uuid, after a step.
C6_RowsStay == \A r \in documents : \E q \in documents' : q.name = r.name /\ q.uuid = r.uuid

\* C6: the documents table holds at most one row per name, and a stored
\* name keeps its uuid in every later state, whatever runs succeed or fail.
C6_OneIdentityPerName ==
    /\ [](\A r1, r2 \in documents : r1.name = r2.name => r1 = r2)
    /\ [][C6_RowsStay]_vars

\* After a failed run and a completed run over two paths of the same name,
\* the table holds the one row of the first run.
C6_Witness ==
    /\ pc = "returned"
    /\ Len(log) = 2
    /\ log[1].path = PathAX /\ log[1].res = "raised"
    /\ log[2].path = PathBX
    /\ DocRows("x") = {[uuid |-> doc_uuid, name |-> "x", path |-> PathStr(PathAX),
                        language |-> "en"]}

\* ------------------------------------------------------------------------ C7
\* C7: every chunk row references a stored document, in every reachable
\* state, also after a run that failed part-way.
C7_ChunkReferencesDocument ==
    \A c \in chunk_rows : \E d \in documents : d.uuid = c.document_uuid

\* A run has raised after inserting its first chunk, for a document name
\* that an earlier run had stored.
C7_Witness ==
    /\ pc = "raised"
    /\ Len(log) = 2
    /\ Stem(log[1].path) = doc_name
    /\ \E c \in chunk_rows : c.document_uuid = doc_uuid /\ c.page = 1
    /\ Cardinality(chunk_rows) >= 2

\* ------------------------------------------------------------------------ C8
\* Log records of the runs over a document name.
Entries(name) == {k \in 1..Len(log) : Stem(log[k].path) = name}

RECURSIVE SumN(_)
SumN(S) == IF S = {} THEN 0
           ELSE LET k == CHOOSE x \in S : TRUE IN log[k].n + SumN(S \ {k})

ChunksOfName(name) ==
    {c \in chunk_rows : \E d \in DocRows(name) : d.uuid = c.document_uuid}

\* C8: chunk rows are not deduplicated.  For a document name all of whose
\* runs have completed, the chunks table holds one row per segment of every
\* run (2N rows after two runs of N segments), all with distinct uuids, and
\* the documents table holds one row of that name.
C8_ChunksNotDeduplicated ==
    \A d \in Names :
        (Entries(d) # {} /\ \A k \in Entries(d) : log[k].res = "ok") =>
            /\ Cardinality(ChunksOfName(d)) = SumN(Entries(d))
            /\ Cardinality({c.uuid : c \in ChunksOfName(d)}) = SumN(Entries(d))
            /\ Cardinality(DocRows(d)) = 1

\* Two completed runs over the same file of two segments: four chunk rows.
C8_Witness ==
    /\ Len(log) = 2
    /\ \A k \in 1..2 : log[k].path = PathAX /\ log[k].res = "ok" /\ log[k].n = 2
    /\ Cardinality(ChunksOfName("x")) = 4
    /\ Cardinality(DocRows("x")) = 1

\* ------------------------------------------------------------------------ C9
\* The triples of a file, as insert_indicators receives them.
TriplesOf(p) ==
    LET ts == PageTriples(extract_text_from_pdf(p)) IN {ts[k] : k \in 1..Len(ts)}

\* Edges from the Indicator node of (category, value) to the Document node
\* of a uuid, for one page.
EdgesFor(document_uuid, t) ==
    {e \in edges :
        /\ e.src \in Matching(ind_nodes, IndicatorUuid(t[2], t[3]))
        /\ e.dst \in Matching(doc_nodes, document_uuid)
        /\ e.page = ToString(t[1])
        /\ e.category = t[2]}

\* Completed graph phases over a document name.
Mirrors(name) == {k \in Entries(name) : log[k].graph = "ok"}

\* The step in which insert_indicators writes one triple.
C9_EdgeStep ==
    (pc = "neo_ind" /\ pc' = "neo_ind" /\ todo # << >>) =>
        \E e \in edges' :
            /\ e \notin edges
            /\ edges' = edges \cup {e}
            /\ e.relationship_uuid \notin {f.relationship_uuid : f \in edges}
            /\ e.page = ToString(Head(todo)[1])
            /\ e.category = Head(todo)[2]

\* C9: mention edges are not merged.  Each triple insert_indicators writes
\* adds exactly one edge, under an identity no edge had; so for a file
\* mirrored m times without a failure, every one of its (page, category,
\* value) triples has exactly m edges to its Document node (twice as many
\* after the second mirroring), while there is still one Indicator node per
\* triple value and one Document node.
C9_EdgesNotMerged ==
    /\ [](Cardinality({e.relationship_uuid : e \in edges}) = Cardinality(edges))
    /\ [](\A p \in Paths :
            (/\ Mirrors(Stem(p)) # {}
             /\ \A k \in Entries(Stem(p)) :
                   log[k].path = p /\ log[k].graph \in {"ok", "none"}
             /\ ~(pc \in NeoPcs /\ doc_name = Stem(p))) =>
                \A d \in DocRows(Stem(p)) :
                    /\ Cardinality(Matching(doc_nodes, d.uuid)) = 1
                    /\ \A t \in TriplesOf(p) :
                          /\ Cardinality(EdgesFor(d.uuid, t))
                                = Cardinality(Mirrors(Stem(p)))
                          /\ Cardinality(Matching(ind_nodes,
                                                  IndicatorUuid(t[2], t[3]))) = 1)
    /\ [][C9_EdgeStep]_vars

\* The same file mirrored twice: two edges for the domain on page 1, two
\* Indicator nodes and one Document node as after the first mirroring.
C9_Witness ==
    /\ Len(log) = 2
    /\ \A k \in 1..2 : log[k].path = PathAX /\ log[k].graph = "ok"
    /\ \E d \in DocRows("x") :
          Cardinality(EdgesFor(d.uuid, <<1, "domains", "evil.test">>)) = 2
    /\ Len(ind_nodes) = 2
    /\ Len(doc_nodes) = 1
    /\ Cardinality(edges) = 4

\* ----------------------------------------------------------------------- C10
\* C10: indicator identity is a function of (category, value).  No two
\* Indicator nodes carry the same (type, value) or the same uuid, every
\* node's uuid is the one computed from its type and value, every edge starts
\* at an Indicator node of the edge's category, and every triple of a
\* completed mirroring has its Indicator node.
C10_OneIndicatorPerPair ==
    /\ \A a, b \in 1..Len(ind_nodes) :
          (\/ (ind_nodes[a].type = ind_nodes[b].type
                  /\ ind_nodes[a].value = ind_nodes[b].value)
           \/ ind_nodes[a].uuid = ind_nodes[b].uuid) => a = b
    /\ \A a \in 1..Len(ind_nodes) :
          ind_nodes[a].uuid = IndicatorUuid(ind_nodes[a].type, ind_nodes[a].value)
    /\ \A e \in edges :
          e.src \in 1..Len(ind_nodes) /\ ind_nodes[e.src].type = e.category
    /\ \A k \in 1..Len(log) :
          log[k].graph = "ok" =>
              \A t \in TriplesOf(log[k].path) :
                  \E a \in 1..Len(ind_nodes) :
                      ind_nodes[a].type = t[2] /\ ind_nodes[a].value = t[3]

\* Two documents of different names mention the same IP address: both edges
\* start at the one Indicator node of ("ips", "10.0.0.5").
C10_Witness ==
    /\ Len(doc_nodes) = 2
    /\ \E e1, e2 \in edges :
          /\ e1.src = e2.src
          /\ e1.dst # e2.dst
          /\ ind_nodes[e1.src].type = "ips"
          /\ ind_nodes[e1.src].value = "10.0.0.5"
    /\ Cardinality({a \in 1..Len(ind_nodes) : ind_nodes[a].value = "10.0.0.5"}) = 1

\* ----------------------------------------------------------------------- C11
\* The artifact the current run writes.
RunArtifact == [clean |-> full_text, json |-> IndicatorsDict]

C11_SaveStep ==
    /\ artifacts' # artifacts => (pc = "save" /\ pc' = "returned")
    /\ pc' = "returned" => (pc = "save" /\ artifacts'[doc_name] = {RunArtifact})
    /\ pc' = "save" => (pc \in NeoPcs \/ (pc = "insert_chunk" /\ ~neo4j_driver))
    /\ pc \in {"save", "returned"} => UNCHANGED <<pgVars, neoVars>>

C12_MergeStep ==
    (pc = "neo_doc" /\ pc' = "neo_ind") =>
        /\ \E k \in 1..Len(doc_nodes') :
              /\ Matching(doc_nodes', doc_uuid) = {k}
              /\ doc_nodes'[k] = [uuid |-> doc_uuid, name |-> doc_name,
                                  path |-> PathStr(pdf_path), language |-> lang]
        /\ Len(doc_nodes') = Len(doc_nodes) + (IF Matching(doc_nodes, doc_uuid) = {}
                                               THEN 1 ELSE 0)
        /\ \A k \in 1..Len(doc_nodes) :
              doc_nodes[k].uuid # doc_uuid => doc_nodes'[k] = doc_nodes[k]

\* C12: Neo4jRepository.insert_document is a last-write-wins merge.  No two
\* Document nodes carry the same identity; a call leaves exactly one node of
\* its identity, carrying the name, path and language of that call, and
\* leaves every other node as it was; and no other step changes a Document
\* node, so a node always shows the arguments of the most recent call.
C12_LastWriteWins ==
    /\ [](\A a, b \in 1..Len(doc_nodes) :
            doc_nodes[a].uuid = doc_nodes[b].uuid => a = b)
    /\ [][C12_MergeStep]_vars
    /\ [][doc_nodes' # doc_nodes => (pc = "neo_doc" /\ pc' = "neo_ind")]_vars

\* A document name was mirrored from an English file and then from a French
\* one: the one Document node carries the second path and "fr", the
\* relational row of the same identity the first path and "en".
C12_Witness ==
    /\ Len(log) = 2
    /\ log[1].path = PathAX /\ log[1].graph = "ok"
    /\ log[2].path = PathBX
    /\ Len(doc_nodes) = 1
    /\ doc_nodes[1].language = "fr"
    /\ doc_nodes[1].path = PathStr(PathBX)
    /\ \E r \in documents :
          /\ r.uuid = doc_nodes[1].uuid
          /\ r.language = "en"
          /\ r.path = PathStr(PathAX)

\* ----------------------------------------------------------------------- C13
\* C13: chunk_text never returns a segment longer than the size limit,
\* whichever path produced the segments.  The list it returns, and the list
\* the post-processing loop builds on the way, hold no segment of more than
\* SegWords words, although the primary splitter may have returned longer
\* ones; the list returned by the primary path is the primary's list with
\* every oversized segment replaced, in place, by its recursive split.
C13_NoOversizedSegment ==
    /\ \A k \in 1..Len(final_chunks) : Len(final_chunks[k]) <= SegWords
    /\ ct_pc = "done" =>
          /\ \A k \in 1..Len(ct_return) : Len(ct_return[k]) <= SegWords
          /\ use_spacy => ct_return = PostProcess(spacy_chunks)
          /\ ~use_spacy => ct_return = chunk_text(ct_text, FALSE)
          /\ (use_spacy /\ spacy_chunks = SpacySplit(ct_text)) =>
                ct_return = chunk_text(ct_text, TRUE)

\* The primary splitter returned a sentence longer than the limit, and
\* chunk_text has returned a list that is longer than the primary's.
C13_Witness ==
    /\ ct_pc = "done"
    /\ use_spacy
    /\ \E k \in 1..Len(spacy_chunks) : Len(spacy_chunks[k]) > SegWords
    /\ Len(ct_return) > Len(spacy_chunks)

\* ----------------------------------------------------------------------- C14
\* The steps of chunk_text that follow an error.
C14_ExceptStep ==
    /\ ct_pc \in {"start", "post"} => ct_pc' # "raised"
    /\ (ct_pc = "fallback" /\ ct_pc' = "done") => ct_return' = RecursiveSplit(ct_text)

\* C14: an error of the primary splitter, at any point of the try block, is
\* not propagated.  No step of the primary path leaves chunk_text by raising;
\* once use_spacy is cleared the call goes through the recursive splitter,
\* and the list it returns is the recursive splitter's list for the whole
\* text, whatever the post-processing loop had built before the error.
C14_PrimaryErrorFallsBack ==
    /\ [](ct_pc = "raised" => ~use_spacy)
    /\ []((ct_pc = "done" /\ ~use_spacy) => ct_return = RecursiveSplit(ct_text))
    /\ [][C14_ExceptStep]_vars

\* The primary path failed after the loop had built part of its list; the
\* list returned is the recursive splitter's and does not start with that
\* part.
C14_Witness ==
    /\ ct_pc = "done"
    /\ ~use_spacy
    /\ final_chunks # << >>
    /\ ct_k <= Len(spacy_chunks)
    /\ ct_return = RecursiveSplit(ct_text)
    /\ ct_return # << >>
    /\ ct_return[1] # final_chunks[1]

\* ----------------------------------------------------------------------- C15
StrictlyIncreasing(q) == \A k \in 1..(Len(q) - 1) : LexLess(q[k], q[k + 1])

\* C15: the extractor returns all seven categories, each as a sorted list
\* without duplicates.  Each list is strictly increasing in the order of
\* strings and holds exactly the values found for its category, so it is the
\* one list that text can give: the result does not depend on the order in
\* which the matches were found or the sets are iterated.
C15_SortedDuplicateFree ==
    ex_pc = "done" =>
        /\ DOMAIN ex_return = CategorySet
        /\ Cardinality(DOMAIN ex_return) = 7
        /\ \A c \in CategorySet :
              /\ StrictlyIncreasing(ex_return[c])
              /\ Range(ex_return[c]) = ex_indicators[c]
              /\ Len(ex_return[c]) = Cardinality(ex_indicators[c])

\* A text with two domains, the first of which sorts after the second: the
\* list returned has them in the other order.
C15_Witness ==
    /\ ex_pc = "done"
    /\ Len(findall("domain_pattern", ex_text)) = 2
    /\ Len(ex_return["domains"]) = 2
    /\ ex_return["domains"][1] = findall("domain_pattern", ex_text)[2]
    /\ ex_return["domains"][2] = findall("domain_pattern", ex_text)[1]

\* ----------------------------------------------------------------------- C16
ScenarioEmail == <<"a", "l", "e", "r", "t", "s", "@", "t", "i", "-", "e", "x", "a", "m", "p", "l", "e", ".", "c", "o", "m">>
ScenarioIp == <<"1", "0", ".", "0", ".", "0", ".", "5">>
ScenarioUrl ==
    <<"h", "t", "t", "p", "s", ":", "/", "/", "b", "a", "d", "-", "d", "o", "m",
      "a", "i", "n", ".", "t", "e", "s", "t", "/", "p", "a", "y", "l", "o", "a",
      "d", ".", "e", "x", "e">>
ScenarioDomain == <<"b", "a", "d", "-", "d", "o", "m", "a", "i", "n", ".", "t", "e", "s", "t">>
ScenarioFile == <<"p", "a", "y", "l", "o", "a", "d", ".", "e", "x", "e">>
ScenarioHost == <<"t", "i", "-", "e", "x", "a", "m", "p", "l", "e", ".", "c", "o", "m">>

RECURSIVE TokensFrom(_, _)
\* The words of a text, as text.split() gives them, from position p.
TokensFrom(t, p) ==
    IF p > Len(t) THEN {}
    ELSE IF t[p] \in WhiteSpace THEN TokensFrom(t, p + 1)
    ELSE LET e == RunEnd(t, p, AllChars \ WhiteSpace)
         IN  {SubSeq(t, p, e - 1)} \cup TokensFrom(t, e)

\* A word of four dot-separated groups of one to three digits.
IsDottedQuad(v) ==
    LET os == OctetsOf(v, 1)
    IN  /\ Len(os) = 4
        /\ \A k \in 1..4 :
              Len(os[k]) \in 1..3 /\ \A j \in 1..Len(os[k]) : os[k][j] \in Digits

QuadTokens == {v \in TokensFrom(ex_text, 1) : IsDottedQuad(v)}
OctetsInRange(v) == \A k \in 1..4 : IntOf(OctetsOf(v, 1)[k]) <= 255
HasLeadingZero(v) ==
    \E k \in 1..4 : Len(OctetsOf(v, 1)[k]) > 1 /\ OctetsOf(v, 1)[k][1] = "0"

\* C17 as stated: a dotted quad of the text is among the ips exactly when
\* each of its octets is in 0..255.
C17_Original ==
    ex_pc = "done" =>
        \A v \in QuadTokens : v \in Range(ex_return["ips"]) <=> OctetsInRange(v)

\* C17, amended: a dotted quad with an octet above 255 is never among the
\* ips, and the extraction goes on without it; one whose octets are all in
\* 0..255 and written without a leading zero always is; one with an octet
\* written with a leading zero is dropped where the ipaddress library
\* rejects that notation and kept where it does not.
C17_IpOctetValidation ==
    ex_pc = "done" =>
        \A v \in QuadTokens :
            /\ ~OctetsInRange(v) => v \notin Range(ex_return["ips"])
            /\ (OctetsInRange(v) /\ ~HasLeadingZero(v)) => v \in Range(ex_return["ips"])
            /\ (OctetsInRange(v) /\ HasLeadingZero(v)) =>
                  (v \in Range(ex_return["ips"]) <=> ~ip_strict)

\* The text "8.8.8.8 999.1.1.1": the first address is returned, the second
\* is not, and the call has returned.
C17_Witness ==
    /\ ex_pc = "done"
    /\ ex_text = <<"8", ".", "8", ".", "8", ".", "8", " ", "9", "9", "9", ".", "1", ".", "1", ".", "1">>
    /\ ex_return["ips"] = <<<<"8", ".", "8", ".", "8", ".", "8">>>>

\* ----------------------------------------------------------------------- C18
\* The moves of the position inside one run of process_pdf, in source order.
RunOrder ==
    {<<"extract", "clean">>, <<"clean", "detect">>, <<"detect", "upsert">>,
     <<"upsert", "chunk">>, <<"chunk", "insert_chunk">>,
     <<"insert_chunk", "neo_connect">>, <<"insert_chunk", "save">>,
     <<"neo_connect", "neo_doc">>, <<"neo_doc", "neo_ind">>,
     <<"neo_connect", "save">>, <<"neo_doc", "save">>, <<"neo_ind", "save">>,
     <<"save", "returned">>}
        \cup {<<p, "raised">> : p \in RaisingSteps}

\* C18 as stated, in its third part: a run that failed in a required phase
\* (it raised) has not gone through the graph writes.
C18_Original == pc = "raised" => Last.graph # "ok"

\* The steps of one run, with what each kind of write presupposes.
C18_OrderStep ==
    /\ (InProcessPdf /\ pc' # pc /\ pc \notin {"returned", "raised"}) =>
            <<pc, pc'>> \in RunOrder
    /\ documents' # documents => (pc = "upsert" /\ pc' = "chunk")
    /\ chunk_rows' # chunk_rows =>
            /\ pc = "insert_chunk" /\ pc' = "insert_chunk"
            /\ \E r \in documents : r.uuid = doc_uuid /\ r.name = doc_name
            /\ Last.graph = "none"
            /\ UNCHANGED neoVars
    /\ neoVars' # neoVars =>
            /\ pc \in {"neo_doc", "neo_ind"}
            /\ i > Len(chunks)
            /\ RunRowsPresent
            /\ UNCHANGED <<pgVars, fileVars>>
    /\ (pc' = "raised" /\ pc # "save") =>
            /\ pc \in {"extract", "clean", "upsert", "chunk", "insert_chunk"}
            /\ Last.graph = "none"
            /\ UNCHANGED neoVars
    /\ pc' = "returned" =>
            (pc = "save" /\ RunArtifact \in artifacts'[doc_name] /\ UNCHANGED neoVars)

\* C18, amended: the steps of a run occur in the fixed order extract, clean,
\* detect language, document upsert, chunking, chunk inserts, graph
\* mirroring when there is a driver, artifact write, return.  The document
\* row is there at every chunk insert; every chunk of the run is inserted
\* before the first graph write and none after it; a run that fails before
\* the graph phase has attempted no graph write; the run returns only
\* through the artifact write.  The artifact write is itself a required
\* phase and comes after the graph writes: a run that fails there raises
\* with its graph writes made.
C18_FixedStepOrder ==
    /\ [](pc \in NeoPcs \cup {"save", "returned"} =>
            (i > Len(chunks) /\ RunRowsPresent))
    /\ [](pc \in {"extract", "clean", "detect", "upsert", "chunk", "insert_chunk"} =>
            Last.graph = "none")
    /\ []((pc = "raised" /\ Last.graph # "none") => neo4j_driver)
    /\ [][C18_OrderStep]_vars

\* A run with a driver has returned: its two chunks, its Document node and
\* its artifact are there.
C18_Witness ==
    /\ pc = "returned"
    /\ Last.n = 2
    /\ Last.graph = "ok"
    /\ Cardinality({c \in chunk_rows : c.document_uuid = doc_uuid}) = 2
    /\ Matching(doc_nodes, doc_uuid) # {}
    /\ artifacts[doc_name] = {RunArtifact}

\* ----------------------------------------------------------------------- C19
\* The number of segments of the runs logged so far, added up.
RECURSIVE SegmentsLogged(_)
SegmentsLogged(k) == IF k = 0 THEN 0 ELSE log[k].n + SegmentsLogged(k - 1)

\* The chunk loop of the current run is over.
AfterChunkLoop == pc \in NeoPcs \cup {"save", "returned"}

\* One step of the chunk loop, and the steps around it.
C19_InsertStep ==
    /\ (pc = "chunk" /\ pc' = "insert_chunk") => (i' = 1 /\ Last'.n = Len(chunks'))
    /\ chunk_rows' # chunk_rows =>
            /\ pc = "insert_chunk"
            /\ i \in 1..Len(chunks)
            /\ i' = i + 1
            /\ chunks' = chunks
            /\ \E c \in chunk_rows' \ chunk_rows :
                  /\ chunk_rows' = chunk_rows \cup {c}
                  /\ c.document_uuid = doc_uuid
                  /\ c.page = i
                  /\ c.text = chunks[i]
            /\ Cardinality(chunk_rows') = Cardinality(chunk_rows) + 1
    /\ (pc = "insert_chunk" /\ i' # i) => chunk_rows' # chunk_rows
    /\ (pc = "insert_chunk" /\ pc' \in NeoPcs \cup {"save"}) => i = Len(chunks) + 1
    /\ AfterChunkLoop => chunk_rows' = chunk_rows
    /\ (AfterChunkLoop /\ pc # "returned") => UNCHANGED <<chunks, i>>

\* C19: a run that completes on a text of N segments inserts exactly N
\* chunk rows, one per segment in segment order, numbered 1, 2, ..., N.
\* The loop starts at 1; each of its steps adds exactly one new row, for
\* the current document, with the next number and the segment of that
\* number; the loop is left in order only after the step for N, and nothing
\* else of the run touches the table.  So in the first run ever the table
\* holds exactly the rows (k, segment k) for k = 1..N once the loop is over,
\* and as long as every run completed the table holds as many rows as the
\* runs had segments.
C19_OneRowPerSegment ==
    /\ [](pc = "insert_chunk" => i \in 1..(Len(chunks) + 1))
    /\ [](AfterChunkLoop => (i = Len(chunks) + 1 /\ Last.n = Len(chunks)))
    /\ []((Len(log) = 1 /\ (pc = "insert_chunk" \/ AfterChunkLoop)) =>
            /\ Cardinality(chunk_rows) = i - 1
            /\ {<<c.page, c.text>> : c \in chunk_rows}
                    = {<<k, chunks[k]>> : k \in 1..(i - 1)}
            /\ \A c \in chunk_rows : c.document_uuid = doc_uuid)
    /\ []((pc \in {"idle", "loop"} /\ \A k \in 1..Len(log) : log[k].res = "ok") =>
            Cardinality(chunk_rows) = SegmentsLogged(Len(log)))
    /\ [][C19_InsertStep]_vars

\* The second run on a document of two segments has returned: the table
\* holds four rows of that document, two with number 1 and two with number 2.
C19_Witness ==
    /\ pc = "returned"
    /\ Len(log) = 2
    /\ log[1].path = log[2].path
    /\ log[1].res = "ok"
    /\ Len(chunks) = 2
    /\ \A k \in 1..2 :
          Cardinality({c \in chunk_rows : c.document_uuid = doc_uuid /\ c.page = k
                                          /\ c.text = chunks[k]}) = 2
    /\ Cardinality(chunk_rows) = 4

\* ----------------------------------------------------------------------- C20
\* The step that follows the chunk loop when there is no driver.
C20_NoDriverStep ==
    ~neo4j_driver =>
        /\ UNCHANGED neoVars
        /\ pc' \notin NeoPcs
        /\ (pc = "insert_chunk" /\ pc' \notin {"insert_chunk", "raised"}) =>
                (pc' = "save" /\ neo4j_success')
        /\ (pc = "save" /\ pc' = "returned") =>
                \A a \in artifacts'[doc_name] : a.json.metadata.neo4j_success = TRUE

\* C20: without a graph driver no graph operation is attempted, and the
\* metadata written to the artifact carries neo4j_success = true although
\* nothing was mirrored.  Without a driver the run never enters the graph
\* phase, the graph store stays empty and no run is logged with a graph
\* outcome; the flag is true at the artifact write, and every artifact on
\* disk carries the flag true.
C20_NoDriverFlagTrue ==
    /\ [](~neo4j_driver =>
            /\ pc \notin NeoPcs
            /\ doc_nodes = << >> /\ ind_nodes = << >> /\ edges = {}
            /\ \A k \in 1..Len(log) : log[k].graph = "none"
            /\ pc \in {"save", "returned"} => neo4j_success
            /\ \A n \in Names : \A a \in artifacts[n] : a.json.metadata.neo4j_success)
    /\ [][C20_NoDriverStep]_vars

\* A run without a driver has returned on a text that holds indicators: the
\* artifact is flagged true, lists the indicators, and the graph is empty.
C20_Witness ==
    /\ ~neo4j_driver
    /\ pc = "returned"
    /\ doc_nodes = << >> /\ ind_nodes = << >> /\ edges = {}
    /\ \E a \in artifacts[doc_name] :
          /\ a.json.metadata.neo4j_success = TRUE
          /\ a.json.metadata.document_uuid = doc_uuid
          /\ FlatIndicators(a.json.indicators) # << >>

\* ----------------------------------------------------------------------- C21
\* The run raised at a chunk insert: the loop index still names that chunk.
RaisedAtChunk == pc = "raised" /\ i \in 1..Len(chunks)

\* The rows of the current document with a given page number.
RowsOfPage(k) == {c \in chunk_rows : c.document_uuid = doc_uuid /\ c.page = k}

\* The step in which the j-th chunk insert raises, and the steps after it.
C21_FailStep ==
    /\ (pc = "insert_chunk" /\ pc' = "raised") =>
            /\ UNCHANGED <<pgVars, neoVars, fileVars>>
            /\ \E r \in documents : r.uuid = doc_uuid /\ r.name = doc_name
            /\ \A k \in 1..(i - 1) : \E c \in RowsOfPage(k) : c.text = chunks[k]
            /\ Last.graph = "none"
            /\ Last'.res = "raised"
    /\ pc = "raised" =>
            /\ UNCHANGED <<pgVars, neoVars, fileVars>>
            /\ processed_count' = processed_count
    /\ documents \subseteq documents'
    /\ chunk_rows \subseteq chunk_rows'

\* C21: the relational writes of a failed run are not rolled back.  When
\* the j-th chunk insert raises, no store changes in that step or in the
\* driver's handling of it: the document row and the rows 1..j-1 stay, no
\* artifact and no graph write is made, the document is not counted, and no
\* row is ever removed.  In the first run ever the table then holds exactly
\* j-1 rows, the stores of graph and artifacts are empty.  When the next
\* run, on the same document name, returns, there is still one document row
\* of that name, its identity is the one the runs used, and the table holds
\* the full set 1..N of the second run on top of the leftover rows 1..j-1.
C21_NoRollback ==
    /\ []((RaisedAtChunk /\ Len(log) = 1) =>
            /\ Cardinality(chunk_rows) = i - 1
            /\ \A k \in 1..(i - 1) : Cardinality(RowsOfPage(k)) = 1
            /\ Cardinality(documents) = 1
            /\ doc_nodes = << >> /\ ind_nodes = << >> /\ edges = {}
            /\ \A n \in Names : artifacts[n] = NoFile)
    /\ []((/\ pc = "returned"
           /\ Len(log) = 2
           /\ log[1].res = "raised"
           /\ log[1].n > 0
           /\ Stem(log[1].path) = Stem(log[2].path)) =>
            /\ Cardinality(documents) = 1
            /\ \A r \in documents : r.uuid = doc_uuid /\ r.name = doc_name
            /\ \E j \in 1..(log[1].n + 1) :
                  /\ Cardinality(chunk_rows) = (j - 1) + Len(chunks)
                  /\ \A k \in 1..(Len(chunks) + log[1].n) :
                        Cardinality(RowsOfPage(k)) =
                            (IF k < j THEN 1 ELSE 0) + (IF k <= Len(chunks) THEN 1 ELSE 0))
    /\ [][C21_FailStep]_vars

\* The second chunk insert of the first run raised; the second run on the
\* same file has returned: one document row, three chunk rows, two of them
\* numbered 1.
C21_Witness ==
    /\ pc = "returned"
    /\ Len(log) = 2
    /\ log[1].res = "raised" /\ log[1].n = 2
    /\ log[1].path = log[2].path
    /\ Len(chunks) = 2
    /\ Cardinality(documents) = 1
    /\ Cardinality(chunk_rows) = 3
    /\ Cardinality(RowsOfPage(1)) = 2
    /\ Cardinality(RowsOfPage(2)) = 1

\* ----------------------------------------------------------------------- C22
\* The graph holds the Indicator node of a triple and a MENTIONED_IN edge
\* from it to the Document node of the identity, with the page and category.
TripleMirrored(document_uuid, page, category, value) ==
    \E a \in Matching(ind_nodes, IndicatorUuid(category, value)) :
        /\ ind_nodes[a].value = value
        /\ ind_nodes[a].type = category
        /\ \E b \in Matching(doc_nodes, document_uuid) :
              \E e \in edges :
                  /\ e.src = a
                  /\ e.dst = b
                  /\ e.page = ToString(page)
                  /\ e.category = category

\* The graph holds what the current run had to mirror.
RunMirrored ==
    /\ Matching(doc_nodes, doc_uuid) # {}
    /\ \A k \in 1..Len(PageTriples(raw_pages)) :
          LET t == PageTriples(raw_pages)[k]
          IN  TripleMirrored(doc_uuid, t[1], t[2], t[3])

\* The flag stays true only along the complete graph phase.
C22_FlagStep ==
    /\ (neo4j_driver /\ pc' = "save" /\ neo4j_success') =>
            (pc = "neo_ind" /\ todo = << >> /\ UNCHANGED neoVars)
    /\ (pc = "neo_ind" /\ todo' # todo /\ pc' = pc) =>
            LET t == Head(todo)
            IN  /\ \E m \in 0..Len(PageTriples(raw_pages)) :
                      todo = SubSeq(PageTriples(raw_pages), m + 1,
                                    Len(PageTriples(raw_pages)))
                /\ \E e \in edges' \ edges :
                      /\ e.page = ToString(t[1])
                      /\ e.category = t[2]
                      /\ ind_nodes'[e.src].value = t[3]
                      /\ doc_nodes'[e.dst].uuid = doc_uuid
    /\ \A k \in 1..Len(doc_nodes) :
          k <= Len(doc_nodes') /\ doc_nodes'[k].uuid = doc_nodes[k].uuid
    /\ \A k \in 1..Len(ind_nodes) :
          k <= Len(ind_nodes') /\ ind_nodes'[k] = ind_nodes[k]
    /\ edges \subseteq edges'

\* C22: with a driver, neo4j_success = true in the metadata of a run means
\* that at the end of the run the graph holds the Document node of the
\* run's identity and, for every (page, category, value) triple of the
\* run's pages, the Indicator node and an edge from it to that Document
\* with that page and category.  The flag is true at the artifact write
\* only after insert_indicators has gone through all triples; nothing is
\* ever removed from the graph, so every artifact on disk that is flagged
\* true still has its Document node.
C22_FlagTrueMeansMirrored ==
    /\ []((neo4j_driver /\ pc \in {"save", "returned"} /\ neo4j_success) =>
            (RunMirrored /\ Last.graph = "ok"))
    /\ []((neo4j_driver /\ pc = "returned") =>
            \A a \in artifacts[doc_name] :
                a.json.metadata.neo4j_success =>
                    (a.json.metadata.document_uuid = doc_uuid /\ RunMirrored))
    /\ [](neo4j_driver =>
            \A n \in Names : \A a \in artifacts[n] :
                a.json.metadata.neo4j_success =>
                    Matching(doc_nodes, a.json.metadata.document_uuid) # {})
    /\ [][C22_FlagStep]_vars

\* A run with a driver has returned flagged true on a file of two pages with
\* one indicator each: both triples are mirrored.
C22_Witness ==
    /\ neo4j_driver
    /\ pc = "returned"
    /\ Len(PageTriples(raw_pages)) = 2
    /\ PageTriples(raw_pages)[1][1] # PageTriples(raw_pages)[2][1]
    /\ \E a \in artifacts[doc_name] : a.json.metadata.neo4j_success
    /\ RunMirrored
    /\ Cardinality(edges) = 2

\* ----------------------------------------------------------------------- C23
\* The edges that mirror a triple for the current document.
EdgesOfTriple(t) ==
    {e \in edges :
        /\ e.page = ToString(t[1])
        /\ e.category = t[2]
        /\ ind_nodes[e.src].value = t[3]
        /\ ind_nodes[e.src].type = t[2]
        /\ doc_nodes[e.dst].uuid = doc_uuid}

RunTriples == PageTriples(raw_pages)

\* The step in which insert_indicators fails after some triples.
C23_FailStep ==
    /\ (pc \in NeoPcs /\ pc' = "save" /\ ~neo4j_success') =>
            /\ UNCHANGED <<neoVars, pgVars, fileVars>>
            /\ Last'.graph = "failed"
    /\ (pc = "neo_ind" /\ pc' = "save" /\ ~neo4j_success') =>
            LET k == Len(RunTriples) - Len(todo)
            IN  /\ k \in 0..(Len(RunTriples) - 1)
                /\ Matching(doc_nodes, doc_uuid) # {}
                /\ \A m \in 1..k : EdgesOfTriple(RunTriples[m]) # {}
                /\ \A m \in 1..k : TripleMirrored(doc_uuid, RunTriples[m][1],
                                                   RunTriples[m][2], RunTriples[m][3])
    /\ (pc \in {"save", "returned", "raised"} /\ ~neo4j_success) => UNCHANGED neoVars

\* C23: the graph writes of a failed graph phase are not rolled back.  When
\* insert_indicators fails after k triples, the failing step changes no
\* store: the Document node and the Indicator nodes and edges of those k
\* triples are in the graph, and they stay there while the run, flagged
\* false, writes its artifact and ends.  In the first run ever the graph
\* then holds exactly one edge for each of the first k triples and none for
\* the others.  When the next run, on the same file, completes its graph
\* phase, the graph holds two edges for each of those k triples and one for
\* each of the others, on one Document node.
C23_NoGraphRollback ==
    /\ []((InProcessPdf /\ Len(log) = 1 /\ Last.graph = "failed") =>
            /\ ~neo4j_success
            /\ \E k \in 0..Len(RunTriples) :
                  /\ Cardinality(edges) = k
                  /\ \A m \in 1..Len(RunTriples) :
                        Cardinality(EdgesOfTriple(RunTriples[m])) = (IF m <= k THEN 1 ELSE 0)
                  /\ k > 0 => Matching(doc_nodes, doc_uuid) # {})
    /\ []((/\ pc \in {"save", "returned"}
           /\ Len(log) = 2
           /\ log[1].path = log[2].path
           /\ log[1].graph = "failed"
           /\ log[2].graph = "ok") =>
            /\ Len(doc_nodes) = 1
            /\ \E k \in 0..Len(RunTriples) :
                  /\ Cardinality(edges) = k + Len(RunTriples)
                  /\ \A m \in 1..Len(RunTriples) :
                        Cardinality(EdgesOfTriple(RunTriples[m])) = (IF m <= k THEN 2 ELSE 1))
    /\ [][C23_FailStep]_vars

\* The first run failed in insert_indicators after one of two triples; the
\* second run on the same file has returned flagged true: three edges, two
\* of them for the first triple.
C23_Witness ==
    /\ pc = "returned"
    /\ Len(log) = 2
    /\ log[1].path = log[2].path
    /\ log[1].graph = "failed"
    /\ log[2].graph = "ok"
    /\ Len(RunTriples) = 2
    /\ Cardinality(edges) = 3
    /\ Cardinality(EdgesOfTriple(RunTriples[1])) = 2
    /\ Cardinality(EdgesOfTriple(RunTriples[2])) = 1
    /\ \E a \in artifacts[doc_name] : a.json.metadata.neo4j_success

\* ----------------------------------------------------------------------- C24
\* The document row the current run refers to.
RunDocument == CHOOSE r \in documents : r.uuid = doc_uuid

\* Where the language of a row comes from.
C24_LanguageStep ==
    /\ (pc = "detect" /\ pc' = "upsert") => lang' = detect_language(full_text)
    /\ (InProcessPdf /\ pc \notin {"detect", "returned", "raised"}) => lang' = lang
    /\ \A c \in chunk_rows' \ chunk_rows : c.language = lang /\ c.document_uuid = doc_uuid
    /\ \A r \in documents' \ documents :
          /\ r.language = lang
          /\ r.name = doc_name
          /\ ~\E q \in documents : q.name = doc_name
    /\ documents \subseteq documents'
    /\ chunk_rows \subseteq chunk_rows'
    /\ (pc = "save" /\ pc' = "returned") =>
            \A a \in artifacts'[doc_name] : a.json.metadata.language = lang

\* C24: a chunk row carries the language detected in the run that inserted
\* it, not the language of its document row.  The language of a run is the
\* one detected on its text; every chunk row and the artifact metadata of
\* the run take it; a document row takes it only when the run inserts the
\* row, which it does only when the name is new, and no row is changed
\* afterwards.  So when a name ingested from an English file is re-ingested
\* from a French one, the document row still says "en" while the chunk rows
\* of the second run, which reference it, and the artifact say "fr".
C24_ChunkLanguageOfRun ==
    /\ []((pc \in {"upsert", "chunk", "insert_chunk", "save", "returned"} \cup NeoPcs) =>
            lang = detect_language(full_text))
    /\ []((/\ pc \in {"save", "returned"}
           /\ Len(log) = 2
           /\ log[1].path = PathAX
           /\ log[1].n > 0
           /\ log[2].path = PathBX) =>
            /\ lang = "fr"
            /\ RunDocument.language = "en"
            /\ RunDocument.path = PathStr(PathAX)
            /\ \A k \in 1..Len(chunks) :
                  \E c \in chunk_rows :
                      /\ c.document_uuid = doc_uuid
                      /\ c.page = k
                      /\ c.text = chunks[k]
                      /\ c.language = "fr")
    /\ [][C24_LanguageStep]_vars

\* The name x was ingested from the English file and then from the French
\* one: the document row says "en", chunk rows of both languages reference
\* it, and the artifact says "fr".
C24_Witness ==
    /\ pc = "returned"
    /\ Len(log) = 2
    /\ log[1].path = PathAX /\ log[1].res = "ok"
    /\ log[2].path = PathBX
    /\ RunDocument.language = "en"
    /\ \E c \in chunk_rows : c.document_uuid = doc_uuid /\ c.language = "fr"
    /\ \E c \in chunk_rows : c.document_uuid = doc_uuid /\ c.language = "en"
    /\ \E a \in artifacts[doc_name] : a.json.metadata.language = "fr"

====
